---- MODULE Spec2Model ----
(***************************************************************************)
(* Model of the Datajud agent (src/datajud_agent.py): identifier           *)
(* extraction, court routing through the classification table, query       *)
(* construction, the HTTP call and response normalisation.                 *)
(*                                                                         *)
(* Python strings that the code inspects character by character (query     *)
(* texts, process numbers) are sequences of one-character strings; strings *)
(* the code only compares or uses as dictionary keys (court codes, field   *)
(* names) are TLA+ strings.  Python dicts are functions over string keys.  *)
(***************************************************************************)
EXTENDS Integers, Sequences, FiniteSets, TLC

VARIABLES
    arg,              \* SpecPure: the argument handed to a pure method
    extracted,        \* SpecPure: result of extract_process_number(arg)
    court,            \* SpecPure: result of identify_court_from_process_number(arg)
    DATAJUD_API_KEY,  \* os.environ.get('DATAJUD_API_KEY')
    pc,               \* process_query: position of the call
    query_text,       \* process_query: its argument
    process_number,   \* process_query: local variable
    court_code,       \* process_query: local variable
    query,            \* process_query: local variable
    requests,         \* every POST issued through session.post, in order
    transport,        \* what session.post did with the last POST
    result,           \* value returned by process_query
    error,            \* exception that left process_query
    raw_response,     \* SpecFormat: the argument of format_response
    formatted,        \* SpecFormat: what format_response returned or raised
    search_field,     \* SpecBuild: the field argument of build_text_search_query
    built,            \* SpecBuild: the queries the builders returned, call by call
    calls,            \* SpecConc: the locals and the outcome of each concurrent call
    court_endpoints,     \* the module-level dict COURT_ENDPOINTS as it is now
    court_code_mapping,  \* the module-level dict COURT_CODE_MAPPING as it is now
    chat              \* SpecChat: the position, the counters and the answer of chat()

vars == <<arg, extracted, court, DATAJUD_API_KEY, pc, query_text,
          process_number, court_code, query, requests, transport, result, error,
          raw_response, formatted, search_field, built, calls,
          court_endpoints, court_code_mapping, chat>>

pure_vars == <<arg, extracted, court>>
fmt_vars == <<raw_response, formatted>>
build_vars == <<search_field, built>>
conc_vars == <<calls>>
table_vars == <<court_endpoints, court_code_mapping>>
chat_vars == <<chat>>
\* the variables that process_query and query_api never touch
ext_vars == <<fmt_vars, build_vars, conc_vars, table_vars, chat_vars>>

-----------------------------------------------------------------------------
(* Bounds *)

\* longest run of padding characters put before, between or after candidates
MaxPad == 1

\* longest list of parties, lawyers, movements or hits in a generated response
MaxList == 2

\* number of process_query calls that run concurrently on the shared agent
NumCalls == 2

\* most tool calls in one message of the LLM
MaxToolCalls == 2

-----------------------------------------------------------------------------
(* Python values *)

\* None where a character-sequence string is expected
None == <<"None">>
\* None where a plain string (court code) is expected
NoneStr == "None"
\* the empty dict {}
EmptyDict == [k \in {} |-> k]
\* a result slot no call has written yet
Unset == <<"unset">>
UnsetStr == "unset"

Digits == {"0", "1", "2", "3", "4", "5", "6", "7", "8", "9"}
Letters == {"a", "b", "c", "d", "e", "f", "g", "h", "i", "j", "k", "l", "m",
            "n", "o", "p", "q", "r", "s", "t", "u", "v", "w", "x", "y", "z"}

\* regex class \d
IsDigit(c) == c \in Digits
\* regex class \w
IsWord(c) == c \in Digits \cup Letters \cup {"_"}

\* str(): the plain string spelled by a character sequence
RECURSIVE Str(_)
Str(s) == IF s = <<>> THEN "" ELSE s[1] \o Str(Tail(s))

\* dict.get(key, default)
Get(d, key, default) == IF key \in DOMAIN d THEN d[key] ELSE default

\* JSON null (None) where the response should hold an object
Null == [json_null |-> TRUE]
AttributeError == [type |-> "AttributeError"]

\* d.get(k1, {}).get(k2, {}) ... .get(kn, default) raises AttributeError when
\* d, or a value the chain passes through, is None
RECURSIVE get_raises(_, _)
get_raises(d, keys) ==
    \/ d = Null
    \/ Len(keys) > 1 /\ get_raises(Get(d, keys[1], EmptyDict), Tail(keys))

-----------------------------------------------------------------------------
(* Constants and tables *)

MAX_RESULTS == 100
DEFAULT_TIMEOUT == 30
API_BASE_URL == "https://api-publica.datajud.cnj.jus.br"

\* an endpoint table that lacks the first federal court
COURT_ENDPOINTS_no_trf1 ==
       "trf2" :> "api_publica_trf2"
    @@ "trf3" :> "api_publica_trf3"
    @@ "trf4" :> "api_publica_trf4"
    @@ "trf5" :> "api_publica_trf5"
    @@ "trf6" :> "api_publica_trf6"
    @@ "tst" :> "api_publica_tst"
    @@ "stj" :> "api_publica_stj"
    @@ "stf" :> "api_publica_stf"
    @@ "tre-ac" :> "api_publica_tre-ac"
    @@ "tre-al" :> "api_publica_tre-al"
    @@ "tre-am" :> "api_publica_tre-am"
    @@ "tre-ap" :> "api_publica_tre-ap"
    @@ "tre-ba" :> "api_publica_tre-ba"
    @@ "tre-ce" :> "api_publica_tre-ce"
    @@ "tre-dft" :> "api_publica_tre-dft"
    @@ "tre-es" :> "api_publica_tre-es"
    @@ "tre-go" :> "api_publica_tre-go"
    @@ "tre-ma" :> "api_publica_tre-ma"
    @@ "tre-mg" :> "api_publica_tre-mg"
    @@ "tre-ms" :> "api_publica_tre-ms"
    @@ "tre-mt" :> "api_publica_tre-mt"
    @@ "tre-pa" :> "api_publica_tre-pa"
    @@ "tre-pb" :> "api_publica_tre-pb"
    @@ "tre-pe" :> "api_publica_tre-pe"
    @@ "tre-pi" :> "api_publica_tre-pi"
    @@ "tre-pr" :> "api_publica_tre-pr"
    @@ "tre-rj" :> "api_publica_tre-rj"
    @@ "tre-rn" :> "api_publica_tre-rn"
    @@ "tre-ro" :> "api_publica_tre-ro"
    @@ "tre-rr" :> "api_publica_tre-rr"
    @@ "tre-rs" :> "api_publica_tre-rs"
    @@ "tre-sc" :> "api_publica_tre-sc"
    @@ "tre-se" :> "api_publica_tre-se"
    @@ "tre-sp" :> "api_publica_tre-sp"
    @@ "tre-to" :> "api_publica_tre-to"
    @@ "tjac" :> "api_publica_tjac"
    @@ "tjal" :> "api_publica_tjal"
    @@ "tjam" :> "api_publica_tjam"
    @@ "tjap" :> "api_publica_tjap"
    @@ "tjba" :> "api_publica_tjba"
    @@ "tjce" :> "api_publica_tjce"
    @@ "tjdft" :> "api_publica_tjdft"
    @@ "tjes" :> "api_publica_tjes"
    @@ "tjgo" :> "api_publica_tjgo"
    @@ "tjma" :> "api_publica_tjma"
    @@ "tjmg" :> "api_publica_tjmg"
    @@ "tjms" :> "api_publica_tjms"
    @@ "tjmt" :> "api_publica_tjmt"
    @@ "tjpa" :> "api_publica_tjpa"
    @@ "tjpb" :> "api_publica_tjpb"
    @@ "tjpe" :> "api_publica_tjpe"
    @@ "tjpi" :> "api_publica_tjpi"
    @@ "tjpr" :> "api_publica_tjpr"
    @@ "tjrj" :> "api_publica_tjrj"
    @@ "tjrn" :> "api_publica_tjrn"
    @@ "tjro" :> "api_publica_tjro"
    @@ "tjrr" :> "api_publica_tjrr"
    @@ "tjrs" :> "api_publica_tjrs"
    @@ "tjsc" :> "api_publica_tjsc"
    @@ "tjse" :> "api_publica_tjse"
    @@ "tjsp" :> "api_publica_tjsp"
    @@ "tjto" :> "api_publica_tjto"
    @@ "trt1" :> "api_publica_trt1"
    @@ "trt2" :> "api_publica_trt2"
    @@ "trt3" :> "api_publica_trt3"
    @@ "trt4" :> "api_publica_trt4"
    @@ "trt5" :> "api_publica_trt5"
    @@ "trt6" :> "api_publica_trt6"
    @@ "trt7" :> "api_publica_trt7"
    @@ "trt8" :> "api_publica_trt8"
    @@ "trt9" :> "api_publica_trt9"
    @@ "trt10" :> "api_publica_trt10"
    @@ "trt11" :> "api_publica_trt11"
    @@ "trt12" :> "api_publica_trt12"
    @@ "trt13" :> "api_publica_trt13"
    @@ "trt14" :> "api_publica_trt14"
    @@ "trt15" :> "api_publica_trt15"
    @@ "trt16" :> "api_publica_trt16"
    @@ "trt17" :> "api_publica_trt17"
    @@ "trt18" :> "api_publica_trt18"
    @@ "trt19" :> "api_publica_trt19"
    @@ "trt20" :> "api_publica_trt20"
    @@ "trt21" :> "api_publica_trt21"
    @@ "trt22" :> "api_publica_trt22"
    @@ "trt23" :> "api_publica_trt23"
    @@ "trt24" :> "api_publica_trt24"

COURT_ENDPOINTS ==
       "trf1" :> "api_publica_trf1"
    @@ "trf2" :> "api_publica_trf2"
    @@ "trf3" :> "api_publica_trf3"
    @@ "trf4" :> "api_publica_trf4"
    @@ "trf5" :> "api_publica_trf5"
    @@ "trf6" :> "api_publica_trf6"
    @@ "tst" :> "api_publica_tst"
    @@ "stj" :> "api_publica_stj"
    @@ "stf" :> "api_publica_stf"
    @@ "tre-ac" :> "api_publica_tre-ac"
    @@ "tre-al" :> "api_publica_tre-al"
    @@ "tre-am" :> "api_publica_tre-am"
    @@ "tre-ap" :> "api_publica_tre-ap"
    @@ "tre-ba" :> "api_publica_tre-ba"
    @@ "tre-ce" :> "api_publica_tre-ce"
    @@ "tre-dft" :> "api_publica_tre-dft"
    @@ "tre-es" :> "api_publica_tre-es"
    @@ "tre-go" :> "api_publica_tre-go"
    @@ "tre-ma" :> "api_publica_tre-ma"
    @@ "tre-mg" :> "api_publica_tre-mg"
    @@ "tre-ms" :> "api_publica_tre-ms"
    @@ "tre-mt" :> "api_publica_tre-mt"
    @@ "tre-pa" :> "api_publica_tre-pa"
    @@ "tre-pb" :> "api_publica_tre-pb"
    @@ "tre-pe" :> "api_publica_tre-pe"
    @@ "tre-pi" :> "api_publica_tre-pi"
    @@ "tre-pr" :> "api_publica_tre-pr"
    @@ "tre-rj" :> "api_publica_tre-rj"
    @@ "tre-rn" :> "api_publica_tre-rn"
    @@ "tre-ro" :> "api_publica_tre-ro"
    @@ "tre-rr" :> "api_publica_tre-rr"
    @@ "tre-rs" :> "api_publica_tre-rs"
    @@ "tre-sc" :> "api_publica_tre-sc"
    @@ "tre-se" :> "api_publica_tre-se"
    @@ "tre-sp" :> "api_publica_tre-sp"
    @@ "tre-to" :> "api_publica_tre-to"
    @@ "tjac" :> "api_publica_tjac"
    @@ "tjal" :> "api_publica_tjal"
    @@ "tjam" :> "api_publica_tjam"
    @@ "tjap" :> "api_publica_tjap"
    @@ "tjba" :> "api_publica_tjba"
    @@ "tjce" :> "api_publica_tjce"
    @@ "tjdft" :> "api_publica_tjdft"
    @@ "tjes" :> "api_publica_tjes"
    @@ "tjgo" :> "api_publica_tjgo"
    @@ "tjma" :> "api_publica_tjma"
    @@ "tjmg" :> "api_publica_tjmg"
    @@ "tjms" :> "api_publica_tjms"
    @@ "tjmt" :> "api_publica_tjmt"
    @@ "tjpa" :> "api_publica_tjpa"
    @@ "tjpb" :> "api_publica_tjpb"
    @@ "tjpe" :> "api_publica_tjpe"
    @@ "tjpi" :> "api_publica_tjpi"
    @@ "tjpr" :> "api_publica_tjpr"
    @@ "tjrj" :> "api_publica_tjrj"
    @@ "tjrn" :> "api_publica_tjrn"
    @@ "tjro" :> "api_publica_tjro"
    @@ "tjrr" :> "api_publica_tjrr"
    @@ "tjrs" :> "api_publica_tjrs"
    @@ "tjsc" :> "api_publica_tjsc"
    @@ "tjse" :> "api_publica_tjse"
    @@ "tjsp" :> "api_publica_tjsp"
    @@ "tjto" :> "api_publica_tjto"
    @@ "trt1" :> "api_publica_trt1"
    @@ "trt2" :> "api_publica_trt2"
    @@ "trt3" :> "api_publica_trt3"
    @@ "trt4" :> "api_publica_trt4"
    @@ "trt5" :> "api_publica_trt5"
    @@ "trt6" :> "api_publica_trt6"
    @@ "trt7" :> "api_publica_trt7"
    @@ "trt8" :> "api_publica_trt8"
    @@ "trt9" :> "api_publica_trt9"
    @@ "trt10" :> "api_publica_trt10"
    @@ "trt11" :> "api_publica_trt11"
    @@ "trt12" :> "api_publica_trt12"
    @@ "trt13" :> "api_publica_trt13"
    @@ "trt14" :> "api_publica_trt14"
    @@ "trt15" :> "api_publica_trt15"
    @@ "trt16" :> "api_publica_trt16"
    @@ "trt17" :> "api_publica_trt17"
    @@ "trt18" :> "api_publica_trt18"
    @@ "trt19" :> "api_publica_trt19"
    @@ "trt20" :> "api_publica_trt20"
    @@ "trt21" :> "api_publica_trt21"
    @@ "trt22" :> "api_publica_trt22"
    @@ "trt23" :> "api_publica_trt23"
    @@ "trt24" :> "api_publica_trt24"

\* a table that files the supreme court under the military courts as well
COURT_CODE_MAPPING_military ==
       "1" :> (   "01" :> "trf1"
               @@ "02" :> "trf2"
               @@ "03" :> "trf3"
               @@ "04" :> "trf4"
               @@ "05" :> "trf5"
               @@ "06" :> "trf6" )
    @@ "2" :> (   "01" :> "tjac"
               @@ "02" :> "tjal"
               @@ "03" :> "tjap"
               @@ "04" :> "tjam"
               @@ "05" :> "tjba"
               @@ "06" :> "tjce"
               @@ "07" :> "tjdft"
               @@ "08" :> "tjes"
               @@ "09" :> "tjgo"
               @@ "10" :> "tjma"
               @@ "11" :> "tjmg"
               @@ "12" :> "tjms"
               @@ "13" :> "tjmt"
               @@ "14" :> "tjpa"
               @@ "15" :> "tjpb"
               @@ "16" :> "tjpe"
               @@ "17" :> "tjpi"
               @@ "18" :> "tjpr"
               @@ "19" :> "tjrj"
               @@ "20" :> "tjrn"
               @@ "21" :> "tjro"
               @@ "22" :> "tjrr"
               @@ "23" :> "tjrs"
               @@ "24" :> "tjsc"
               @@ "25" :> "tjse"
               @@ "26" :> "tjsp"
               @@ "27" :> "tjto" )
    @@ "3" :> (   "01" :> "trt1"
               @@ "02" :> "trt2"
               @@ "03" :> "trt3"
               @@ "04" :> "trt4"
               @@ "05" :> "trt5"
               @@ "06" :> "trt6"
               @@ "07" :> "trt7"
               @@ "08" :> "trt8"
               @@ "09" :> "trt9"
               @@ "10" :> "trt10"
               @@ "11" :> "trt11"
               @@ "12" :> "trt12"
               @@ "13" :> "trt13"
               @@ "14" :> "trt14"
               @@ "15" :> "trt15"
               @@ "16" :> "trt16"
               @@ "17" :> "trt17"
               @@ "18" :> "trt18"
               @@ "19" :> "trt19"
               @@ "20" :> "trt20"
               @@ "21" :> "trt21"
               @@ "22" :> "trt22"
               @@ "23" :> "trt23"
               @@ "24" :> "trt24" )
    @@ "4" :> (   "01" :> "tre-ac"
               @@ "02" :> "tre-al"
               @@ "03" :> "tre-ap"
               @@ "04" :> "tre-am"
               @@ "05" :> "tre-ba"
               @@ "06" :> "tre-ce"
               @@ "07" :> "tre-dft"
               @@ "08" :> "tre-es"
               @@ "09" :> "tre-go"
               @@ "10" :> "tre-ma"
               @@ "11" :> "tre-mg"
               @@ "12" :> "tre-ms"
               @@ "13" :> "tre-mt"
               @@ "14" :> "tre-pa"
               @@ "15" :> "tre-pb"
               @@ "16" :> "tre-pe"
               @@ "17" :> "tre-pi"
               @@ "18" :> "tre-pr"
               @@ "19" :> "tre-rj"
               @@ "20" :> "tre-rn"
               @@ "21" :> "tre-ro"
               @@ "22" :> "tre-rr"
               @@ "23" :> "tre-rs"
               @@ "24" :> "tre-sc"
               @@ "25" :> "tre-se"
               @@ "26" :> "tre-sp"
               @@ "27" :> "tre-to" )
    @@ "5" :> ("00" :> "stf")
    @@ "6" :> (   "00" :> "stf"
               @@ "01" :> "stj"
               @@ "02" :> "tst" )

COURT_CODE_MAPPING ==
       "1" :> (   "01" :> "trf1"
               @@ "02" :> "trf2"
               @@ "03" :> "trf3"
               @@ "04" :> "trf4"
               @@ "05" :> "trf5"
               @@ "06" :> "trf6" )
    @@ "2" :> (   "01" :> "tjac"
               @@ "02" :> "tjal"
               @@ "03" :> "tjap"
               @@ "04" :> "tjam"
               @@ "05" :> "tjba"
               @@ "06" :> "tjce"
               @@ "07" :> "tjdft"
               @@ "08" :> "tjes"
               @@ "09" :> "tjgo"
               @@ "10" :> "tjma"
               @@ "11" :> "tjmg"
               @@ "12" :> "tjms"
               @@ "13" :> "tjmt"
               @@ "14" :> "tjpa"
               @@ "15" :> "tjpb"
               @@ "16" :> "tjpe"
               @@ "17" :> "tjpi"
               @@ "18" :> "tjpr"
               @@ "19" :> "tjrj"
               @@ "20" :> "tjrn"
               @@ "21" :> "tjro"
               @@ "22" :> "tjrr"
               @@ "23" :> "tjrs"
               @@ "24" :> "tjsc"
               @@ "25" :> "tjse"
               @@ "26" :> "tjsp"
               @@ "27" :> "tjto" )
    @@ "3" :> (   "01" :> "trt1"
               @@ "02" :> "trt2"
               @@ "03" :> "trt3"
               @@ "04" :> "trt4"
               @@ "05" :> "trt5"
               @@ "06" :> "trt6"
               @@ "07" :> "trt7"
               @@ "08" :> "trt8"
               @@ "09" :> "trt9"
               @@ "10" :> "trt10"
               @@ "11" :> "trt11"
               @@ "12" :> "trt12"
               @@ "13" :> "trt13"
               @@ "14" :> "trt14"
               @@ "15" :> "trt15"
               @@ "16" :> "trt16"
               @@ "17" :> "trt17"
               @@ "18" :> "trt18"
               @@ "19" :> "trt19"
               @@ "20" :> "trt20"
               @@ "21" :> "trt21"
               @@ "22" :> "trt22"
               @@ "23" :> "trt23"
               @@ "24" :> "trt24" )
    @@ "4" :> (   "01" :> "tre-ac"
               @@ "02" :> "tre-al"
               @@ "03" :> "tre-ap"
               @@ "04" :> "tre-am"
               @@ "05" :> "tre-ba"
               @@ "06" :> "tre-ce"
               @@ "07" :> "tre-dft"
               @@ "08" :> "tre-es"
               @@ "09" :> "tre-go"
               @@ "10" :> "tre-ma"
               @@ "11" :> "tre-mg"
               @@ "12" :> "tre-ms"
               @@ "13" :> "tre-mt"
               @@ "14" :> "tre-pa"
               @@ "15" :> "tre-pb"
               @@ "16" :> "tre-pe"
               @@ "17" :> "tre-pi"
               @@ "18" :> "tre-pr"
               @@ "19" :> "tre-rj"
               @@ "20" :> "tre-rn"
               @@ "21" :> "tre-ro"
               @@ "22" :> "tre-rr"
               @@ "23" :> "tre-rs"
               @@ "24" :> "tre-sc"
               @@ "25" :> "tre-se"
               @@ "26" :> "tre-sp"
               @@ "27" :> "tre-to" )
    @@ "5" :> EmptyDict
    @@ "6" :> (   "00" :> "stf"
               @@ "01" :> "stj"
               @@ "02" :> "tst" )

-----------------------------------------------------------------------------
(* extract_process_number *)

Rep(tok, n) == [i \in 1..n |-> tok]

\* the pattern without its word boundaries
pattern_no_boundary ==
    Rep("\\d", 7) \o <<"-">> \o Rep("\\d", 2) \o <<"\\.">>
    \o Rep("\\d", 4) \o <<"\\.">> \o Rep("\\d", 1) \o <<"\\.">>
    \o Rep("\\d", 2) \o <<"\\.">> \o Rep("\\d", 4)

\* r'\b\d{7}-\d{2}\.\d{4}\.\d\.\d{2}\.\d{4}\b', one token per regex atom
pattern ==
    <<"\\b">> \o Rep("\\d", 7) \o <<"-">> \o Rep("\\d", 2) \o <<"\\.">>
    \o Rep("\\d", 4) \o <<"\\.">> \o Rep("\\d", 1) \o <<"\\.">>
    \o Rep("\\d", 2) \o <<"\\.">> \o Rep("\\d", 4) \o <<"\\b">>

\* regex \b at the gap before text[pos]: exactly one side is a word character
WordBoundary(text, pos) ==
    LET before == pos > 1 /\ IsWord(text[pos - 1])
        after  == pos <= Len(text) /\ IsWord(text[pos])
    IN  before # after

\* match pat[k..] against text from pos; the position after the match, or -1
RECURSIVE MatchEnd(_, _, _, _)
MatchEnd(pat, text, pos, k) ==
    IF k > Len(pat) THEN pos
    ELSE IF pat[k] = "\\b"
         THEN IF WordBoundary(text, pos)
              THEN MatchEnd(pat, text, pos, k + 1) ELSE -1
    ELSE IF pos > Len(text) THEN -1
    ELSE IF pat[k] = "\\d"
         THEN IF IsDigit(text[pos])
              THEN MatchEnd(pat, text, pos + 1, k + 1) ELSE -1
    ELSE IF text[pos] = (IF pat[k] = "\\." THEN "." ELSE pat[k])
         THEN MatchEnd(pat, text, pos + 1, k + 1) ELSE -1

\* re.search: the leftmost match as <<start, end>>, or <<>> when none
RECURSIVE SearchFrom(_, _, _)
SearchFrom(pat, text, pos) ==
    IF pos > Len(text) + 1 THEN <<>>
    ELSE LET e == MatchEnd(pat, text, pos, 1)
         IN  IF e # -1 THEN <<pos, e>> ELSE SearchFrom(pat, text, pos + 1)

re_search(pat, text) == SearchFrom(pat, text, 1)

\* an extraction that takes one character more than the match
extract_process_number_one_more(text) ==
    LET match == re_search(pattern, text)
    IN  IF match # <<>>
        THEN SubSeq(text, match[1],
                    IF match[2] <= Len(text) THEN match[2] ELSE match[2] - 1)
        ELSE None

extract_process_number(text) ==
    LET match == re_search(pattern, text)
    IN  IF match # <<>>
        THEN SubSeq(text, match[1], match[2] - 1)
        ELSE None

-----------------------------------------------------------------------------
(* identify_court_from_process_number *)

\* str.split(sep)
RECURSIVE SplitFrom(_, _, _, _, _)
SplitFrom(s, sep, i, cur, acc) ==
    IF i > Len(s) THEN Append(acc, cur)
    ELSE IF s[i] = sep
         THEN SplitFrom(s, sep, i + 1, <<>>, Append(acc, cur))
         ELSE SplitFrom(s, sep, i + 1, Append(cur, s[i]), acc)

split(s, sep) == SplitFrom(s, sep, 1, <<>>, <<>>)

\* a lookup that falls back to a default court when the pair is not listed
identify_court_default_stf(number) ==
    IF number = None
    THEN NoneStr
    ELSE LET parts == split(number, ".")
         IN  IF Len(parts) # 5 THEN NoneStr
             ELSE LET justice_type == Str(parts[3])
                      court_id     == Str(parts[4])
                  IN  IF /\ justice_type \in DOMAIN COURT_CODE_MAPPING
                         /\ court_id \in DOMAIN COURT_CODE_MAPPING[justice_type]
                      THEN COURT_CODE_MAPPING[justice_type][court_id]
                      ELSE "stf"

\* a lookup that reads the justice type and court id one segment too early
identify_court_wrong_segments(number) ==
    IF number = None
    THEN NoneStr
    ELSE LET parts == split(number, ".")
         IN  IF Len(parts) # 5 THEN NoneStr
             ELSE LET justice_type == Str(parts[2])
                      court_id     == Str(parts[3])
                  IN  IF /\ justice_type \in DOMAIN COURT_CODE_MAPPING
                         /\ court_id \in DOMAIN COURT_CODE_MAPPING[justice_type]
                      THEN COURT_CODE_MAPPING[justice_type][court_id]
                      ELSE NoneStr

identify_court_from_process_number(number) ==
    IF number = None
    THEN NoneStr          \* None.split raises; the except branch returns None
    ELSE LET parts == split(number, ".")
         IN  IF Len(parts) # 5 THEN NoneStr
             ELSE LET justice_type == Str(parts[3])
                      court_id     == Str(parts[4])
                  IN  IF /\ justice_type \in DOMAIN COURT_CODE_MAPPING
                         /\ court_id \in DOMAIN COURT_CODE_MAPPING[justice_type]
                      THEN COURT_CODE_MAPPING[justice_type][court_id]
                      ELSE NoneStr

-----------------------------------------------------------------------------
(* Query builders *)

\* str.replace(old, '') for a one-character old
remove(s, old) == SelectSeq(s, LAMBDA c : c # old)

\* a query on clean_number, the number with '-' and '.' removed
build_process_number_query_clean(number) ==
    [query |-> [bool |-> [must |->
        << [match |-> [numeroProcesso |-> remove(remove(number, "-"), ".")]] >>]],
     size  |-> MAX_RESULTS]

build_process_number_query(number) ==
    [query |-> [bool |-> [must |-> << [match |-> [numeroProcesso |-> number]] >>]],
     size  |-> MAX_RESULTS]

\* a multi_match that leaves out the case value
build_text_search_query_three_fields(text, field) ==
    IF field # NoneStr /\ field # ""
    THEN [query |-> [match |-> (field :> text)],
          size  |-> MAX_RESULTS]
    ELSE [query |-> [multi_match |->
                        [query  |-> text,
                         fields |-> <<"classe.nome", "assunto.nome",
                                      "orgaoJulgador.nome">>]],
          size  |-> MAX_RESULTS]

\* field is falsy when it is None or the empty string
build_text_search_query(text, field) ==
    IF field # NoneStr /\ field # ""
    THEN [query |-> [match |-> (field :> text)],
          size  |-> MAX_RESULTS]
    ELSE [query |-> [multi_match |->
                        [query  |-> text,
                         fields |-> <<"classe.nome", "assunto.nome",
                                      "orgaoJulgador.nome",
                                      "dadosBasicos.valorCausa">>]],
          size  |-> MAX_RESULTS]

-----------------------------------------------------------------------------
(* Exceptions *)

NoError == [type |-> "none"]
ValueError(what, about) == [type |-> "ValueError", what |-> what, about |-> about]
HTTPError(status) == [type |-> "HTTPError", status |-> status]
JSONDecodeError == [type |-> "JSONDecodeError"]

\* what session.post itself can raise: two requests.RequestException
\* subclasses and an exception outside that hierarchy
PostExceptions == {[type |-> "ConnectionError"], [type |-> "Timeout"],
                   [type |-> "Exception"]}

-----------------------------------------------------------------------------
(* query_api *)

\* headers that carry the key whenever the variable is set, empty or not
request_headers_if_set(api_key) ==
    LET headers == "Content-Type" :> "application/json"
                   @@ "Accept" :> "application/json"
    IN  IF api_key # NoneStr
        THEN headers @@ "X-API-Key" :> api_key
        ELSE headers

\* the headers dict; the key is added when os.environ.get returns a truthy value
request_headers(api_key) ==
    LET headers == "Content-Type" :> "application/json"
                   @@ "Accept" :> "application/json"
    IN  IF api_key # NoneStr /\ api_key # ""
        THEN headers @@ "X-API-Key" :> api_key
        ELSE headers

\* a request sent to the index itself, without the search path
post_request_no_search(code, q, api_key) ==
    [url     |-> API_BASE_URL \o "/" \o COURT_ENDPOINTS[code],
     headers |-> request_headers(api_key),
     json    |-> q,
     timeout |-> DEFAULT_TIMEOUT]

\* the arguments of session.post
post_request(code, q, api_key) ==
    [url     |-> API_BASE_URL \o "/" \o COURT_ENDPOINTS[code] \o "/_search",
     headers |-> request_headers(api_key),
     json    |-> q,
     timeout |-> DEFAULT_TIMEOUT]

\* response.raise_for_status(): raises for 4xx and 5xx only
raise_for_status(status) == status >= 400 /\ status < 600

\* body of a response that is not JSON
NotJson == [not_json |-> TRUE]

\* a query_api that turns an HTTP error status into an empty result
query_api_response_swallow(status, body) ==
    IF raise_for_status(status) THEN <<"return", EmptyDict>>
    ELSE IF body = NotJson THEN <<"raise", JSONDecodeError>>
    ELSE IF get_raises(body, <<"hits", "hits">>) THEN <<"raise", AttributeError>>
    ELSE <<"return", body>>

\* what query_api does with the response of session.post:
\* <<"raise", exception>> or <<"return", data>>
query_api_response(status, body) ==
    IF raise_for_status(status) THEN <<"raise", HTTPError(status)>>
    ELSE IF body = NotJson THEN <<"raise", JSONDecodeError>>
    \* the f-string of the debug message reads data.get('hits', {}).get('hits', [])
    ELSE IF get_raises(body, <<"hits", "hits">>) THEN <<"raise", AttributeError>>
    ELSE <<"return", body>>

-----------------------------------------------------------------------------
(* format_response *)

NA == "N/A"

format_lawyer(advogado) ==
    [nome      |-> Get(Get(advogado, "pessoa", EmptyDict), "nome", NA),
     documento |-> Get(Get(advogado, "pessoa", EmptyDict),
                       "numeroDocumentoPrincipal", NA)]

\* a format_party that puts each lawyer in front of the ones before
format_party_prepend(parte) ==
    LET advogados == Get(parte, "advogados", <<>>)
    IN  [tipo      |-> Get(parte, "tipo", NA),
         nome      |-> Get(Get(parte, "pessoa", EmptyDict), "nome", NA),
         documento |-> Get(Get(parte, "pessoa", EmptyDict),
                           "numeroDocumentoPrincipal", NA),
         advogados |-> [i \in 1..Len(advogados) |->
                          format_lawyer(advogados[Len(advogados) + 1 - i])]]

\* a format_party that takes an empty value for a missing one
format_party_blank_is_na(parte) ==
    LET advogados == Get(parte, "advogados", <<>>)
        tipo      == Get(parte, "tipo", NA)
        nome      == Get(Get(parte, "pessoa", EmptyDict), "nome", NA)
    IN  [tipo      |-> IF tipo = "" THEN NA ELSE tipo,
         nome      |-> IF nome = "" THEN NA ELSE nome,
         documento |-> Get(Get(parte, "pessoa", EmptyDict),
                           "numeroDocumentoPrincipal", NA),
         advogados |-> [i \in 1..Len(advogados) |-> format_lawyer(advogados[i])]]

format_party(parte) ==
    LET advogados == Get(parte, "advogados", <<>>)
    IN  [tipo      |-> Get(parte, "tipo", NA),
         nome      |-> Get(Get(parte, "pessoa", EmptyDict), "nome", NA),
         documento |-> Get(Get(parte, "pessoa", EmptyDict),
                           "numeroDocumentoPrincipal", NA),
         advogados |-> [i \in 1..Len(advogados) |-> format_lawyer(advogados[i])]]

\* a format_movement that leaves a missing complement blank
format_movement_blank(movimento) ==
    [data        |-> Get(movimento, "data", NA),
     nome        |-> Get(movimento, "nome", NA),
     complemento |-> Get(movimento, "complemento", "")]

format_movement(movimento) ==
    [data        |-> Get(movimento, "data", NA),
     nome        |-> Get(movimento, "nome", NA),
     complemento |-> Get(movimento, "complemento", NA)]

\* a format_hit that looks the number up under the name of the output field
format_hit_wrong_key(hit) ==
    LET source     == Get(hit, "_source", EmptyDict)
        partes     == Get(source, "partes", <<>>)
        movimentos == Get(source, "movimentos", <<>>)
    IN  [numero_processo  |-> Get(source, "numero_processo", NA),
         classe           |-> Get(Get(source, "classe", EmptyDict), "nome", NA),
         assunto          |-> Get(Get(source, "assunto", EmptyDict), "nome", NA),
         data_ajuizamento |-> Get(Get(source, "dadosBasicos", EmptyDict),
                                  "dataAjuizamento", NA),
         valor_causa      |-> Get(Get(source, "dadosBasicos", EmptyDict),
                                  "valorCausa", NA),
         orgao_julgador   |-> Get(Get(source, "orgaoJulgador", EmptyDict),
                                  "nome", NA),
         partes           |-> [i \in 1..Len(partes) |-> format_party(partes[i])],
         movimentos       |-> [i \in 1..Len(movimentos) |->
                                  format_movement(movimentos[i])]]

format_hit(hit) ==
    LET source     == Get(hit, "_source", EmptyDict)
        partes     == Get(source, "partes", <<>>)
        movimentos == Get(source, "movimentos", <<>>)
    IN  [numero_processo  |-> Get(source, "numeroProcesso", NA),
         classe           |-> Get(Get(source, "classe", EmptyDict), "nome", NA),
         assunto          |-> Get(Get(source, "assunto", EmptyDict), "nome", NA),
         data_ajuizamento |-> Get(Get(source, "dadosBasicos", EmptyDict),
                                  "dataAjuizamento", NA),
         valor_causa      |-> Get(Get(source, "dadosBasicos", EmptyDict),
                                  "valorCausa", NA),
         orgao_julgador   |-> Get(Get(source, "orgaoJulgador", EmptyDict),
                                  "nome", NA),
         partes           |-> [i \in 1..Len(partes) |-> format_party(partes[i])],
         movimentos       |-> [i \in 1..Len(movimentos) |->
                                  format_movement(movimentos[i])]]

\* a format_response that closes the list with a record for no hit
format_response_trailing_record(response) ==
    LET hits == Get(Get(response, "hits", EmptyDict), "hits", <<>>)
    IN  [total_hits |-> Get(Get(Get(response, "hits", EmptyDict),
                                "total", EmptyDict), "value", 0),
         processes  |-> [i \in 1..(Len(hits) + 1) |->
                            format_hit(IF i <= Len(hits) THEN hits[i]
                                       ELSE EmptyDict)]]

\* a format_response that counts the records it lists
format_response_count_records(response) ==
    LET hits == Get(Get(response, "hits", EmptyDict), "hits", <<>>)
    IN  [total_hits |-> Len(hits),
         processes  |-> [i \in 1..Len(hits) |-> format_hit(hits[i])]]

format_response(response) ==
    LET hits == Get(Get(response, "hits", EmptyDict), "hits", <<>>)
    IN  [total_hits |-> Get(Get(Get(response, "hits", EmptyDict),
                                "total", EmptyDict), "value", 0),
         processes  |-> [i \in 1..Len(hits) |-> format_hit(hits[i])]]

lawyer_raises(advogado) == get_raises(advogado, <<"pessoa", "nome">>)

party_raises(parte) ==
    \/ get_raises(parte, <<"pessoa", "nome">>)
    \/ LET advogados == Get(parte, "advogados", <<>>)
       IN  \E i \in 1..Len(advogados) : lawyer_raises(advogados[i])

movement_raises(movimento) == get_raises(movimento, <<"data">>)

hit_raises(hit) ==
    \/ get_raises(hit, <<"_source", "numeroProcesso">>)
    \/ LET source     == Get(hit, "_source", EmptyDict)
           partes     == Get(source, "partes", <<>>)
           movimentos == Get(source, "movimentos", <<>>)
       IN  \/ get_raises(source, <<"classe", "nome">>)
           \/ get_raises(source, <<"assunto", "nome">>)
           \/ get_raises(source, <<"dadosBasicos", "dataAjuizamento">>)
           \/ get_raises(source, <<"orgaoJulgador", "nome">>)
           \/ \E i \in 1..Len(partes) : party_raises(partes[i])
           \/ \E i \in 1..Len(movimentos) : movement_raises(movimentos[i])

\* format_response leaves with an exception instead of returning
format_raises(response) ==
    \/ get_raises(response, <<"hits", "total", "value">>)
    \/ LET hits == Get(Get(response, "hits", EmptyDict), "hits", <<>>)
       IN  \E i \in 1..Len(hits) : hit_raises(hits[i])

\* <<"raise", exception>> or <<"return", formatted>>
format_response_outcome(response) ==
    IF format_raises(response)
    THEN <<"raise", AttributeError>>
    ELSE <<"return", format_response(response)>>


-----------------------------------------------------------------------------
(* Inputs *)

SeqSegs     == {<<"0","0","0","0","0","0","1">>, <<"1","2","3","4","5","6","7">>}
CheckSegs   == {<<"7","0">>, <<"8","9">>}
YearSegs    == {<<"2","0","2","0">>, <<"1","9","9","9">>}
JusticeSegs == {<<"1">>, <<"2">>, <<"3">>, <<"4">>, <<"5">>, <<"6">>, <<"9">>}
CourtSegs   == {<<"0","0">>, <<"0","1">>, <<"0","5">>, <<"1","1">>,
                <<"2","6">>, <<"2","7">>, <<"9","9">>}
OriginSegs  == {<<"0","0","0","0">>, <<"0","1","2","3">>}

\* NNNNNNN-DD.AAAA.J.TR.OOOO
Cand(n, d, a, j, tr, o) ==
    n \o <<"-">> \o d \o <<".">> \o a \o <<".">> \o j \o <<".">> \o tr
      \o <<".">> \o o

Seq1   == <<"0","0","0","0","0","0","1">>
Chk1   == <<"7","0">>
Year1  == <<"2","0","2","0">>
Orig1  == <<"0","0","0","0">>

\* every text that is one number of the right shape
WellFormed ==
    {Cand(n, d, a, j, tr, o) : n \in SeqSegs, d \in CheckSegs, a \in YearSegs,
                               j \in JusticeSegs, tr \in CourtSegs,
                               o \in OriginSegs}

\* INVALID_PROCESS_NUMBERS of the tests that do not have the shape, and
\* other near misses
MissingDigit  == Cand(<<"0","0","0","0","0","0">>, Chk1, Year1, <<"1">>,
                      <<"0","0">>, Orig1)
MissingDigit01 == Cand(<<"0","0","0","0","0","0">>, Chk1, Year1, <<"1">>,
                       <<"0","1">>, Orig1)
NotANumber    == <<"n","o","t","-","a","-","p","r","o","c","e","s","s","-",
                   "n","u","m","b","e","r">>
NoSeparators  == <<"0","0","0","0","0","0","1","7","0","2","0","2","0","1",
                   "0","0",".","0","0","0","0">>
LettersOnly   == <<"x",".","y",".","1",".","0","1",".","z">>
OneDigitCourt == Cand(Seq1, Chk1, Year1, <<"1">>, <<"1">>, Orig1)
FourSegments  == <<"0","0","0","0","0","0","1","-","7","0",".","2","0","2",
                   "0",".","1",".","0","1">>

Malformed == {MissingDigit, MissingDigit01, NotANumber, NoSeparators,
              LettersOnly, OneDigitCourt, FourSegments}

\* the numbers that are also tried inside longer texts
CoreCands ==
    {Cand(Seq1, Chk1, Year1, <<"1">>, <<"0","1">>, Orig1),
     Cand(<<"1","2","3","4","5","6","7">>, <<"8","9">>, <<"1","9","9","9">>,
          <<"2">>, <<"2","6">>, <<"0","1","2","3">>),
     Cand(Seq1, Chk1, Year1, <<"9">>, <<"0","0">>, Orig1),
     Cand(Seq1, Chk1, Year1, <<"1">>, <<"9","9">>, Orig1),
     Cand(Seq1, Chk1, Year1, <<"5">>, <<"0","1">>, Orig1),
     MissingDigit, NotANumber, NoSeparators}

PadChars == {" ", "a", "7", "_", "."}
Pads == UNION {[1..n -> PadChars] : n \in 0..MaxPad}

Padded == {p \o c \o s : p \in Pads, c \in CoreCands, s \in Pads}
\* two numbers in one text
SecondCands == {Cand(<<"1","2","3","4","5","6","7">>, <<"8","9">>,
                     <<"1","9","9","9">>, <<"2">>, <<"2","6">>,
                     <<"0","1","2","3">>),
                MissingDigit}
Double == {p \o c1 \o m \o c2 : p \in Pads, c1 \in CoreCands, m \in Pads,
                                c2 \in SecondCands}

FreeTexts == {<<>>, <<"h","c">>,
              <<"h","a","b","e","a","s"," ","c","o","r","p","u","s">>}

Texts == WellFormed \cup Malformed \cup Padded \cup Double \cup FreeTexts

\* texts handed to process_query
QueryTexts == {Cand(Seq1, Chk1, Year1, j, tr, Orig1) :
                  j \in JusticeSegs, tr \in CourtSegs}
              \cup Malformed \cup FreeTexts
              \cup {p \o c : p \in Pads, c \in CoreCands}
              \cup {c \o s : c \in CoreCands, s \in Pads}

ApiKeys == {NoneStr, "", "k3y"}
Statuses == {200, 204, 304, 404, 500}
Timestamps == {"t1", "t2"}

Lawyer1 == [pessoa |-> [nome |-> "adv1", numeroDocumentoPrincipal |-> "oab1"]]
Lawyer2 == [pessoa |-> [nome |-> "adv2"]]
Party1  == [tipo |-> "AUTOR",
            pessoa |-> [nome |-> "p1", numeroDocumentoPrincipal |-> "d1"],
            advogados |-> <<Lawyer1, Lawyer2>>]
Party2  == [tipo |-> "REU", pessoa |-> [nome |-> "p2"]]
Move1   == [data |-> "2020-01-01", nome |-> "m1", complemento |-> "c1"]
Move2   == [data |-> "2020-01-02", nome |-> "m2"]
Source1 == [numeroProcesso |-> "n1",
            classe |-> [nome |-> "HC"], assunto |-> [nome |-> "a1"],
            dadosBasicos |-> [dataAjuizamento |-> "2020-01-01",
                              valorCausa |-> "1000"],
            orgaoJulgador |-> [nome |-> "o1"],
            partes |-> <<Party1, Party2>>,
            movimentos |-> <<Move1, Move2>>]
Source2 == [numeroProcesso |-> "n2", dadosBasicos |-> EmptyDict]

Bodies ==
    {EmptyDict,
     [hits |-> [total |-> [value |-> 0], hits |-> <<>>]],
     [hits |-> [total |-> [value |-> 1], hits |-> << [_source |-> Source1] >>]],
     [hits |-> [total |-> [value |-> 2],
                hits |-> << [_source |-> Source2], EmptyDict >>]],
     [hits |-> Null],
     [hits |-> [total |-> Null]],
     NotJson}

-----------------------------------------------------------------------------
(* process_query *)

NoQuery == [size |-> 0]
NoResult == [total_hits |-> -1]
NoTransport == [kind |-> "none"]

\* the values of the variables of the other specifications while they rest
FmtIdle == raw_response = EmptyDict /\ formatted = NoResult
BuildIdle == search_field = NoneStr /\ built = <<>>
\* a call that has not entered process_query
IdleCall == [pc |-> "idle", query_text |-> None, process_number |-> None,
             court_code |-> NoneStr, query |-> NoQuery,
             transport |-> NoTransport, result |-> NoResult, error |-> NoError]
ConcIdle == calls = [i \in 1..NumCalls |-> IdleCall]
\* the two tables as the module defines them when it is imported; no method
\* assigns to them, so the lookups of the model read the defined contents
TablesLoaded ==
    /\ court_endpoints = COURT_ENDPOINTS
    /\ court_code_mapping = COURT_CODE_MAPPING
\* no chat request has arrived
ChatIdle ==
    chat = [pc |-> "idle", message |-> "", completed |-> FALSE,
            tool_calls |-> <<>>, next |-> 0, llm_calls |-> 0,
            process_query_calls |-> 0, executed |-> <<>>,
            status |-> 0, body |-> "none"]
ExtIdle == FmtIdle /\ BuildIdle /\ ConcIdle /\ TablesLoaded /\ ChatIdle

\* a routing that falls back to the default court when the court of the
\* identifier cannot be identified
route_default_court(text) ==
    LET number == extract_process_number(text)
        code   == IF number # None /\ number # <<>>
                  THEN identify_court_from_process_number(number)
                  ELSE NoneStr
    IN  IF code # NoneStr /\ code # ""
        THEN [process_number |-> number, court_code |-> code,
              query |-> build_process_number_query(number),
              error |-> NoError]
        ELSE [process_number |-> number, court_code |-> "stf",
              query |-> build_text_search_query(text, NoneStr),
              error |-> NoError]

\* process_query up to the call of query_api: the locals and, when the court
\* cannot be identified, the ValueError that ends the call
route(text) ==
    LET number == extract_process_number(text)
    IN  IF number # None /\ number # <<>>
        THEN LET code == identify_court_from_process_number(number)
             IN  IF code = NoneStr \/ code = ""
                 THEN [process_number |-> number, court_code |-> code,
                       query |-> NoQuery,
                       error |-> ValueError("Could not identify court", number)]
                 ELSE [process_number |-> number, court_code |-> code,
                       query |-> build_process_number_query(number),
                       error |-> NoError]
        ELSE [process_number |-> number, court_code |-> "stf",
              query |-> build_text_search_query(text, NoneStr),
              error |-> NoError]

\* process_query from its start to the POST (or to the exception raised
\* before any POST)
ProcessQuery(text) ==
    /\ pc = "idle"
    /\ LET r == route(text)
       IN  /\ query_text' = text
           /\ process_number' = r.process_number
           /\ court_code' = r.court_code
           /\ query' = r.query
           /\ IF r.error # NoError
              THEN /\ pc' = "raised"
                   /\ error' = r.error
                   /\ UNCHANGED requests
              ELSE IF r.court_code \notin DOMAIN COURT_ENDPOINTS
              THEN /\ pc' = "raised"
                   /\ error' = ValueError("Invalid court code", r.court_code)
                   /\ UNCHANGED requests
              ELSE /\ pc' = "posting"
                   /\ requests' = Append(requests,
                                    post_request(r.court_code, r.query,
                                                 DATAJUD_API_KEY))
                   /\ UNCHANGED error
    /\ UNCHANGED <<arg, extracted, court, DATAJUD_API_KEY, transport, result>>
    /\ UNCHANGED ext_vars

\* a process_query that sends the request again when session.post raises
PostRaises_retry(exc) ==
    /\ pc = "posting"
    /\ transport' = [kind |-> "raise", exc |-> exc]
    /\ requests' = Append(requests, requests[Len(requests)])
    /\ pc' = "raised"
    /\ error' = exc
    /\ UNCHANGED <<arg, extracted, court, DATAJUD_API_KEY, query_text,
                   process_number, court_code, query, result>>
    /\ UNCHANGED ext_vars

\* session.post raises: query_api and process_query re-raise it
PostRaises(exc) ==
    /\ pc = "posting"
    /\ transport' = [kind |-> "raise", exc |-> exc]
    /\ pc' = "raised"
    /\ error' = exc
    /\ UNCHANGED <<arg, extracted, court, DATAJUD_API_KEY, query_text,
                   process_number, court_code, query, requests, result>>
    /\ UNCHANGED ext_vars

\* a metadata that records the identifier in place of the text
add_metadata_stripped(formatted_response, text, number, code, now) ==
    formatted_response
    @@ [metadata |-> [query          |-> number,
                      process_number |-> number,
                      court          |-> code,
                      timestamp      |-> now]]

\* formatted_response["metadata"] = {...}
add_metadata(formatted_response, text, number, code, now) ==
    formatted_response
    @@ [metadata |-> [query          |-> text,
                      process_number |-> number,
                      court          |-> code,
                      timestamp      |-> now]]

\* session.post returns a response: the rest of query_api and process_query
PostReturns(status, body, now) ==
    /\ pc = "posting"
    /\ transport' = [kind |-> "response", status |-> status, body |-> body]
    /\ LET r == query_api_response(status, body)
           f == IF r[1] = "raise" THEN r ELSE format_response_outcome(r[2])
       IN  IF f[1] = "raise"
           THEN /\ pc' = "raised"
                /\ error' = f[2]
                /\ UNCHANGED result
           ELSE /\ pc' = "returned"
                /\ result' = add_metadata(f[2], query_text, process_number,
                                          court_code, now)
                /\ UNCHANGED error
    /\ UNCHANGED <<arg, extracted, court, DATAJUD_API_KEY, query_text,
                   process_number, court_code, query, requests>>
    /\ UNCHANGED ext_vars

Init ==
    /\ arg = None
    /\ extracted = Unset
    /\ court = UnsetStr
    /\ DATAJUD_API_KEY \in ApiKeys
    /\ pc = "idle"
    /\ query_text = None
    /\ process_number = None
    /\ court_code = NoneStr
    /\ query = NoQuery
    /\ requests = <<>>
    /\ transport = NoTransport
    /\ result = NoResult
    /\ error = NoError
    /\ ExtIdle

\* the response of a server that holds exactly one process, the one whose
\* number the exact-match query q asks for
FoundBodies(q) ==
    IF "query" \in DOMAIN q /\ "bool" \in DOMAIN q.query
    THEN {[hits |-> [total |-> [value |-> 1],
                     hits  |-> << [_source |->
                        [numeroProcesso |->
                            Str(q.query.bool.must[1].match.numeroProcesso)]] >>]]}
    ELSE {}

Next ==
    \/ \E text \in QueryTexts : ProcessQuery(text)
    \/ \E exc \in PostExceptions : PostRaises(exc)
    \/ \E status \in Statuses, body \in Bodies \cup FoundBodies(query),
          now \in Timestamps :
          PostReturns(status, body, now)

Spec == Init /\ [][Next]_vars

-----------------------------------------------------------------------------
(* The pure methods called on their own *)

pq_vars == <<DATAJUD_API_KEY, pc, query_text, process_number, court_code,
             query, requests, transport, result, error>>

TypeError == <<"TypeError">>

\* agent.extract_process_number(arg); re.search raises TypeError on None
ExtractProcessNumber ==
    /\ extracted = Unset
    /\ extracted' = IF arg = None THEN TypeError
                    ELSE extract_process_number(arg)
    /\ UNCHANGED <<arg, court>> /\ UNCHANGED pq_vars /\ UNCHANGED ext_vars

\* a lookup that files an empty dict under a justice type it does not know
IdentifyCourt_setdefault ==
    /\ court = UnsetStr
    /\ court' = identify_court_from_process_number(arg)
    /\ court_code_mapping' =
          IF arg # None /\ Len(split(arg, ".")) = 5
                        /\ Str(split(arg, ".")[3]) \notin DOMAIN court_code_mapping
          THEN court_code_mapping @@ (Str(split(arg, ".")[3]) :> EmptyDict)
          ELSE court_code_mapping
    /\ UNCHANGED <<arg, extracted, pq_vars, fmt_vars, build_vars, conc_vars,
                   court_endpoints, chat_vars>>

\* agent.identify_court_from_process_number(arg)
IdentifyCourt ==
    /\ court = UnsetStr
    /\ court' = identify_court_from_process_number(arg)
    /\ UNCHANGED <<arg, extracted>> /\ UNCHANGED pq_vars /\ UNCHANGED ext_vars

InitPure ==
    /\ arg \in Texts \cup {None}
    /\ extracted = Unset
    /\ court = UnsetStr
    /\ DATAJUD_API_KEY = NoneStr
    /\ pc = "idle"
    /\ query_text = None
    /\ process_number = None
    /\ court_code = NoneStr
    /\ query = NoQuery
    /\ requests = <<>>
    /\ transport = NoTransport
    /\ result = NoResult
    /\ error = NoError
    /\ ExtIdle

NextPure == ExtractProcessNumber \/ IdentifyCourt

SpecPure == InitPure /\ [][NextPure]_vars

-----------------------------------------------------------------------------
(* Reference notions used by the properties *)

\* s is NNNNNNN-DD.AAAA.J.TR.OOOO, read position by position
IsGrammar(s) ==
    /\ Len(s) = 25
    /\ \A i \in 1..Len(s) :
          IF i = 8 THEN s[i] = "-"
          ELSE IF i \in {11, 16, 18, 21} THEN s[i] = "."
          ELSE s[i] \in Digits

Min(S) == CHOOSE x \in S : \A y \in S : x <= y

\* start positions of the substrings of text that have the grammar
GrammarStarts(text) ==
    {i \in 1..(Len(text) - 24) : IsGrammar(SubSeq(text, i, i + 24))}

\* those not adjacent to a letter, digit or underscore on either side
DelimitedStarts(text) ==
    {i \in GrammarStarts(text) :
        /\ (i = 1 \/ ~IsWord(text[i - 1]))
        /\ (i + 24 = Len(text) \/ ~IsWord(text[i + 25]))}

FirstOf(text, starts) ==
    IF starts = {} THEN None ELSE SubSeq(text, Min(starts), Min(starts) + 24)

Dots(s) == {i \in 1..Len(s) : s[i] = "."}
NthDot(s, n) == CHOOSE i \in Dots(s) : Cardinality({k \in Dots(s) : k < i}) = n - 1
\* the n-th of the five segments of a string with four dots
Segment(s, n) ==
    SubSeq(s, IF n = 1 THEN 1 ELSE NthDot(s, n - 1) + 1,
              IF n = 5 THEN Len(s) ELSE NthDot(s, n) - 1)

Listed(j, tr) ==
    j \in DOMAIN COURT_CODE_MAPPING /\ tr \in DOMAIN COURT_CODE_MAPPING[j]

KnownJusticeTypes == {"1", "2", "3", "4", "5", "6"}

ExtractDone == extracted # Unset /\ arg # None
IdentifyDone == court # UnsetStr

-----------------------------------------------------------------------------
(* Properties of extract_process_number *)

\* C1 as stated: extract_process_number returns the first substring of the
\* text that has the identifier grammar, and None when there is none.
C1_FirstGrammarSubstring ==
    ExtractDone => extracted = FirstOf(arg, GrammarStarts(arg))

\* C1 as amended: extract_process_number returns the first substring that has
\* the identifier grammar and is delimited by word boundaries (not adjacent
\* to a letter, digit or underscore), and None when the text has no such
\* substring.
C1_FirstDelimitedSubstring ==
    ExtractDone => extracted = FirstOf(arg, DelimitedStarts(arg))

\* a text whose first grammar substring is not delimited and whose second is,
\* and the second was returned
C1_Witness ==
    /\ ExtractDone
    /\ Cardinality(GrammarStarts(arg)) = 2
    /\ Min(GrammarStarts(arg)) \notin DelimitedStarts(arg)
    /\ extracted # None
    /\ extracted = FirstOf(arg, DelimitedStarts(arg))

InvalidJustice == Cand(Seq1, Chk1, Year1, <<"9">>, <<"0","0">>, Orig1)
InvalidCourt   == Cand(Seq1, Chk1, Year1, <<"1">>, <<"9","9">>, Orig1)
INVALID_PROCESS_NUMBERS ==
    {MissingDigit, InvalidJustice, InvalidCourt, NotANumber, NoSeparators}

\* C2: extract_process_number returns None for a text that embeds any of the
\* invalid process numbers (missing digit, unknown justice type, unknown
\* court, not a number, no separators).
C2_InvalidNumbersYieldNone ==
    (/\ ExtractDone
     /\ \E n \in INVALID_PROCESS_NUMBERS : arg = <<" ">> \o n \o <<" ">>)
    => extracted = None

\* C3: every extracted identifier has a justice-type digit among 1..6 and a
\* court id of two digits.
C3_ExtractedInvariant ==
    (ExtractDone /\ extracted # None)
    => /\ Cardinality(Dots(extracted)) = 4
       /\ Str(Segment(extracted, 3)) \in KnownJusticeTypes
       /\ Len(Segment(extracted, 4)) = 2
       /\ \A i \in 1..2 : Segment(extracted, 4)[i] \in Digits

-----------------------------------------------------------------------------
(* Properties of identify_court_from_process_number *)

\* C4 as stated: the listed court for every listed pair, None for every
\* unlisted pair and for every input that is not a well-formed identifier.
C4_NoneUnlessWellFormedAndListed ==
    IdentifyDone =>
        court = IF /\ arg # None
                   /\ IsGrammar(arg)
                   /\ Listed(Str(<<arg[17]>>), Str(SubSeq(arg, 19, 20)))
                THEN COURT_CODE_MAPPING[Str(<<arg[17]>>)][Str(SubSeq(arg, 19, 20))]
                ELSE NoneStr

\* C4 as amended: the listed court for every input that splits on '.' into
\* exactly five segments whose third and fourth form a listed pair, whether
\* or not the input is a well-formed identifier, and None for every other
\* input (every unlisted pair, every pair under justice type 5, another
\* number of segments, None); no default is fabricated and nothing is raised.
C4_ListedPairOfFiveSegments ==
    IdentifyDone =>
        court = IF /\ arg # None
                   /\ Cardinality(Dots(arg)) = 4
                   /\ Listed(Str(Segment(arg, 3)), Str(Segment(arg, 4)))
                THEN COURT_CODE_MAPPING[Str(Segment(arg, 3))][Str(Segment(arg, 4))]
                ELSE NoneStr

\* a number with a missing sequence digit was routed to a court
C4_Witness ==
    IdentifyDone /\ arg = MissingDigit01 /\ ~IsGrammar(arg) /\ court = "trf1"

\* C5: justice type 1 / court 01 routes to trf1, 2 / 26 to tjsp, 3 / 05 to
\* trt5, 4 / 11 to tre-mg and 6 / 00 to stf, whatever the sequence, check,
\* year and origin segments are.
C5_ConcreteRoutes ==
    (IdentifyDone /\ arg # None /\ IsGrammar(arg)) =>
        LET j  == arg[17]
            tr == SubSeq(arg, 19, 20)
        IN  /\ (j = "1" /\ tr = <<"0","1">>) => court = "trf1"
            /\ (j = "2" /\ tr = <<"2","6">>) => court = "tjsp"
            /\ (j = "3" /\ tr = <<"0","5">>) => court = "trt5"
            /\ (j = "4" /\ tr = <<"1","1">>) => court = "tre-mg"
            /\ (j = "6" /\ tr = <<"0","0">>) => court = "stf"

\* the Sao Paulo route taken with other sequence, check, year and origin
C5_Witness ==
    /\ IdentifyDone
    /\ arg = Cand(<<"1","2","3","4","5","6","7">>, <<"8","9">>,
                  <<"1","9","9","9">>, <<"2">>, <<"2","6">>, <<"0","1","2","3">>)
    /\ court = "tjsp"


-----------------------------------------------------------------------------
(* Properties of process_query *)

Started == pc # "idle"
UrlOf(code) == API_BASE_URL \o "/" \o COURT_ENDPOINTS[code] \o "/_search"

\* justice type and court id of an identifier, read by position
JusticeOf(number) == Str(<<number[17]>>)
CourtIdOf(number) == Str(SubSeq(number, 19, 20))

\* C6: when the extracted identifier has a (justice type, court id) pair that
\* the classification table does not list, process_query fails with an error
\* surfaced to the caller, sends no HTTP request and substitutes no default
\* court.
C6_UnknownCourtFails ==
    (/\ Started
     /\ DelimitedStarts(query_text) # {}
     /\ LET n == FirstOf(query_text, DelimitedStarts(query_text))
        IN  ~Listed(JusticeOf(n), CourtIdOf(n)))
    => /\ pc = "raised"
       /\ error.type = "ValueError"
       /\ requests = <<>>
       /\ court_code = NoneStr
       /\ result = NoResult

\* an identifier of justice type 5 ended the call without a request
C6_Witness ==
    /\ pc = "raised"
    /\ process_number = Cand(Seq1, Chk1, Year1, <<"5">>, <<"0","1">>, Orig1)
    /\ error.type = "ValueError"
    /\ requests = <<>>

DefaultFields == <<"classe.nome", "assunto.nome", "orgaoJulgador.nome",
                   "dadosBasicos.valorCausa">>

\* C7: when no identifier is extracted, the single request goes to the stf
\* endpoint, its query is a multi_match over the four fields in order with
\* the whole input text, and the result metadata has process_number None.
C7_FreeTextGoesToStf ==
    (Started /\ DelimitedStarts(query_text) = {})
    => /\ Len(requests) = 1
       /\ requests[1].url = API_BASE_URL \o "/api_publica_stf/_search"
       /\ DOMAIN requests[1].json.query = {"multi_match"}
       /\ requests[1].json.query.multi_match.query = query_text
       /\ requests[1].json.query.multi_match.fields = DefaultFields
       /\ pc = "returned" => result.metadata.process_number = None

\* a text holding only an undelimited number was answered through stf
C7_Witness ==
    /\ pc = "returned"
    /\ GrammarStarts(query_text) # {}
    /\ DelimitedStarts(query_text) = {}
    /\ result.metadata.process_number = None
    /\ result.metadata.court = "stf"

C9_AtMostOneRequest ==
    /\ [](Len(requests) <= 1)
    /\ [][pc = "raised" => requests' = requests]_vars

\* the one request failed and the call ended
C9_Witness ==
    pc = "raised" /\ transport.kind = "raise" /\ Len(requests) = 1

-----------------------------------------------------------------------------
(* query_api called on its own *)

\* court codes handed to query_api: every key of the endpoint table and
\* some strings that are not keys
ApiCodes == DOMAIN COURT_ENDPOINTS \cup {"invalid_court", "", "STF"}

\* queries handed to query_api
ApiQueries ==
    {[query |-> [match_all |-> EmptyDict]],
     build_process_number_query(Cand(Seq1, Chk1, Year1, <<"1">>, <<"0","1">>,
                                     Orig1)),
     build_text_search_query(<<"h","c">>, NoneStr)}

\* a query_api that sends an unknown court code to the default endpoint
QueryApi_fallback_stf(code, q) ==
    /\ pc = "idle"
    /\ court_code' = code
    /\ query' = q
    /\ pc' = "posting"
    /\ requests' = Append(requests,
                     post_request(IF code \in DOMAIN COURT_ENDPOINTS
                                  THEN code ELSE "stf", q, DATAJUD_API_KEY))
    /\ UNCHANGED <<arg, extracted, court, DATAJUD_API_KEY, query_text,
                   process_number, transport, result, error>>
    /\ UNCHANGED ext_vars

\* agent.query_api(code, q) from its start to the POST, or to the ValueError
\* raised for an unknown code
QueryApi(code, q) ==
    /\ pc = "idle"
    /\ court_code' = code
    /\ query' = q
    /\ IF code \notin DOMAIN COURT_ENDPOINTS
       THEN /\ pc' = "raised"
            /\ error' = ValueError("Invalid court code", code)
            /\ UNCHANGED requests
       ELSE /\ pc' = "posting"
            /\ requests' = Append(requests,
                                  post_request(code, q, DATAJUD_API_KEY))
            /\ UNCHANGED error
    /\ UNCHANGED <<arg, extracted, court, DATAJUD_API_KEY, query_text,
                   process_number, transport, result>>
    /\ UNCHANGED ext_vars

\* session.post returns a response to query_api: the status check, the JSON
\* decoding and the return of the decoded data
ApiPostReturns(status, body) ==
    /\ pc = "posting"
    /\ transport' = [kind |-> "response", status |-> status, body |-> body]
    /\ LET r == query_api_response(status, body)
       IN  IF r[1] = "raise"
           THEN pc' = "raised" /\ error' = r[2] /\ UNCHANGED result
           ELSE pc' = "returned" /\ result' = r[2] /\ UNCHANGED error
    /\ UNCHANGED <<arg, extracted, court, DATAJUD_API_KEY, query_text,
                   process_number, court_code, query, requests>>
    /\ UNCHANGED ext_vars

NextApi ==
    \/ \E code \in ApiCodes, q \in ApiQueries : QueryApi(code, q)
    \/ \E exc \in PostExceptions : PostRaises(exc)
    \/ \E status \in Statuses, body \in Bodies : ApiPostReturns(status, body)

SpecApi == Init /\ [][NextApi]_vars

-----------------------------------------------------------------------------
(* Properties of query_api *)

\* C11: query_api called with a court code that is not a key of the endpoint
\* table raises an invalid-court-code error naming that code, before any
\* HTTP request is sent.
C11_InvalidCourtCodeRaises ==
    (Started /\ court_code \notin DOMAIN COURT_ENDPOINTS)
    => /\ pc = "raised"
       /\ error = [type |-> "ValueError", what |-> "Invalid court code",
                   about |-> court_code]
       /\ requests = <<>>
       /\ transport = NoTransport

\* the code of the repository's test was refused without a request
C11_Witness ==
    /\ pc = "raised"
    /\ court_code = "invalid_court"
    /\ error.type = "ValueError"
    /\ requests = <<>>

\* C12: for every known court code and every query, query_api issues one
\* POST whose URL is the base URL + '/' + the court's endpoint segment +
\* '/_search', whose JSON body is the query passed in and whose Content-Type
\* is application/json, and on success returns the response JSON unchanged.
C12_PostAndReturn ==
    (Started /\ court_code \in DOMAIN COURT_ENDPOINTS)
    => /\ Len(requests) = 1
       /\ requests[1].url =
             "https://api-publica.datajud.cnj.jus.br" \o "/"
             \o COURT_ENDPOINTS[court_code] \o "/_search"
       /\ requests[1].json = query
       /\ requests[1].headers["Content-Type"] = "application/json"
       /\ pc = "returned" => result = transport.body

\* a query sent to the Sao Paulo state court came back with one hit
C12_Witness ==
    /\ pc = "returned"
    /\ court_code = "tjsp"
    /\ Len(requests) = 1
    /\ requests[1].url =
          "https://api-publica.datajud.cnj.jus.br/api_publica_tjsp/_search"
    /\ result = transport.body
    /\ "hits" \in DOMAIN result
    /\ "hits" \in DOMAIN result.hits
    /\ Len(result.hits.hits) = 1

-----------------------------------------------------------------------------
(* format_response called on its own *)

\* d without the key k
Without(d, k) == [x \in DOMAIN d \ {k} |-> d[x]]
\* d with the key k set to v
With(d, k, v) == [x \in DOMAIN d \cup {k} |-> IF x = k THEN v ELSE d[x]]

\* sequences over S of length 0..n
SeqsUpTo(S, n) == UNION {[1..k -> S] : k \in 0..n}

Pessoa1 == [nome |-> "p1", numeroDocumentoPrincipal |-> "d1"]

LawyerSeqs == SeqsUpTo({Lawyer1, Lawyer2}, MaxList)

Parties ==
    {[tipo |-> "AUTOR", pessoa |-> Pessoa1, advogados |-> ls] : ls \in LawyerSeqs}
    \cup {Party2, EmptyDict,
          [tipo |-> "", pessoa |-> [nome |-> "", numeroDocumentoPrincipal |-> NA]],
          [pessoa |-> EmptyDict, advogados |-> <<EmptyDict, [pessoa |-> EmptyDict]>>],
          [tipo |-> "REU", pessoa |-> Null],
          [tipo |-> "REU", advogados |-> <<[pessoa |-> Null]>>]}

Moves == {Move1, Move2, EmptyDict, [complemento |-> ""]}

\* the objects that _source nests, each with its leaves
NestedKeys == {"classe", "assunto", "dadosBasicos", "orgaoJulgador"}

Sources ==
    {Source1, Source2, EmptyDict}
    \cup {Without(Source1, k) : k \in DOMAIN Source1}
    \cup {With(Source1, k, EmptyDict) : k \in NestedKeys}
    \cup {With(Source1, k, Null) : k \in NestedKeys}
    \cup {With(Source1, "dadosBasicos", [valorCausa |-> ""]),
          With(Source1, "dadosBasicos", [dataAjuizamento |-> NA])}
    \cup {[numeroProcesso |-> "n1", partes |-> ps] :
             ps \in SeqsUpTo(Parties, MaxList)}
    \cup {[numeroProcesso |-> "n1", movimentos |-> ms] :
             ms \in SeqsUpTo(Moves, MaxList)}

\* hits that are told apart by their number, one of them without any
ListedHits == {[_source |-> Source1], [_source |-> Source2],
               [_source |-> [classe |-> [nome |-> "HC"]]]}

Totals == {0, 1, 10000}

RawResponses ==
    {EmptyDict, [hits |-> EmptyDict], [hits |-> Null],
     [hits |-> [total |-> EmptyDict]], [hits |-> [total |-> Null]],
     [hits |-> [hits |-> <<>>]],
     [hits |-> [hits |-> << [_source |-> Source1] >>]],
     [hits |-> [total |-> [relation |-> "eq"], hits |-> << EmptyDict >>]],
     [hits |-> [total |-> [value |-> 1], hits |-> << Null >>]],
     [hits |-> [total |-> [value |-> 1], hits |-> << [_source |-> Null] >>]]}
    \cup {[hits |-> [total |-> [value |-> t], hits |-> <<>>]] : t \in Totals}
    \cup {[hits |-> [total |-> [value |-> 1], hits |-> << [_source |-> s] >>]] :
             s \in Sources}
    \cup {[hits |-> [total |-> [value |-> t], hits |-> hs]] :
             t \in Totals, hs \in SeqsUpTo(ListedHits, MaxList)}

Unformatted == [total_hits |-> -2]

\* a formatting that lists a hit once however often the response repeats it
FormatResponse_dedup ==
    /\ formatted = Unformatted
    /\ LET hits  == Get(Get(raw_response, "hits", EmptyDict), "hits", <<>>)
           first == {i \in 1..Len(hits) : \A j \in 1..(i - 1) : hits[j] # hits[i]}
           kept  == [k \in 1..Cardinality(first) |->
                       hits[CHOOSE i \in first :
                               Cardinality({j \in first : j < i}) = k - 1]]
       IN  formatted' =
              IF format_raises(raw_response) THEN AttributeError
              ELSE [format_response(raw_response) EXCEPT
                       !.processes = [k \in 1..Len(kept) |-> format_hit(kept[k])]]
    /\ UNCHANGED <<raw_response, pure_vars, pq_vars, build_vars, conc_vars, table_vars, chat_vars>>

\* agent.format_response(raw_response)
FormatResponse ==
    /\ formatted = Unformatted
    /\ formatted' = format_response_outcome(raw_response)[2]
    /\ UNCHANGED <<raw_response, pure_vars, pq_vars, build_vars, conc_vars, table_vars, chat_vars>>

InitFormat ==
    /\ raw_response \in RawResponses
    /\ formatted = Unformatted
    /\ arg = None
    /\ extracted = Unset
    /\ court = UnsetStr
    /\ DATAJUD_API_KEY = NoneStr
    /\ pc = "idle"
    /\ query_text = None
    /\ process_number = None
    /\ court_code = NoneStr
    /\ query = NoQuery
    /\ requests = <<>>
    /\ transport = NoTransport
    /\ result = NoResult
    /\ error = NoError
    /\ BuildIdle
    /\ ConcIdle
    /\ TablesLoaded
    /\ ChatIdle

NextFormat == FormatResponse

SpecFormat == InitFormat /\ [][NextFormat]_vars

-----------------------------------------------------------------------------
(* Properties of format_response *)

\* the key chain exists in d, every link being an object that has the key
RECURSIVE HasPath(_, _)
HasPath(d, keys) ==
    keys = <<>> \/ (keys[1] \in DOMAIN d /\ HasPath(d[keys[1]], Tail(keys)))

\* the value at the end of a key chain that exists
RECURSIVE At(_, _)
At(d, keys) == IF keys = <<>> THEN d ELSE At(d[keys[1]], Tail(keys))

FormatDone == formatted # Unformatted
FormatReturned == FormatDone /\ formatted # AttributeError

\* hits.hits of the raw response, empty when the chain is missing
RawHits == IF HasPath(raw_response, <<"hits", "hits">>)
           THEN raw_response.hits.hits ELSE <<>>

\* C13: a response with hits.total.value = 0 and an empty hits.hits list
\* yields total_hits = 0 and an empty processes list.
C13_EmptyResponse ==
    (/\ FormatDone
     /\ HasPath(raw_response, <<"hits", "total", "value">>)
     /\ raw_response.hits.total.value = 0
     /\ HasPath(raw_response, <<"hits", "hits">>)
     /\ raw_response.hits.hits = <<>>)
    => /\ FormatReturned
       /\ formatted.total_hits = 0
       /\ formatted.processes = <<>>
       /\ DOMAIN formatted = {"total_hits", "processes"}

\* the empty response of the tests was formatted
C13_Witness ==
    /\ FormatDone
    /\ raw_response = [hits |-> [total |-> [value |-> 0], hits |-> <<>>]]
    /\ formatted = [total_hits |-> 0, processes |-> <<>>]

\* the value format_response is to put at a leaf: the source value when the
\* key chain exists, "N/A" otherwise
Leaf(d, keys) == IF HasPath(d, keys) THEN At(d, keys) ELSE "N/A"
\* the list under a key, empty when the key is missing
ListAt(d, key) == IF key \in DOMAIN d THEN d[key] ELSE <<>>
\* _source of the i-th raw hit
Src(i) == IF "_source" \in DOMAIN RawHits[i] THEN RawHits[i]._source
          ELSE EmptyDict

\* out is the party record of parte, lawyer by lawyer in the same order
SameParty(out, parte) ==
    LET advs == ListAt(parte, "advogados")
    IN  /\ out.tipo = Leaf(parte, <<"tipo">>)
        /\ out.nome = Leaf(parte, <<"pessoa", "nome">>)
        /\ out.documento = Leaf(parte, <<"pessoa", "numeroDocumentoPrincipal">>)
        /\ Len(out.advogados) = Len(advs)
        /\ \A k \in 1..Len(advs) :
              /\ out.advogados[k].nome = Leaf(advs[k], <<"pessoa", "nome">>)
              /\ out.advogados[k].documento =
                    Leaf(advs[k], <<"pessoa", "numeroDocumentoPrincipal">>)

SameMovement(out, mov) ==
    /\ out.data = Leaf(mov, <<"data">>)
    /\ out.nome = Leaf(mov, <<"nome">>)
    /\ out.complemento = Leaf(mov, <<"complemento">>)

\* C14: for every hit the parties come out in the order and number of
\* partes, each party's lawyers in the order and number of its advogados,
\* and the movements in the order and number of movimentos; a lawyer stays
\* with the party it was listed under.
C14_OrderPreserved ==
    FormatReturned =>
        \A i \in 1..Len(RawHits) :
            /\ i <= Len(formatted.processes)
            /\ LET out == formatted.processes[i]
                   ps  == ListAt(Src(i), "partes")
                   ms  == ListAt(Src(i), "movimentos")
               IN  /\ Len(out.partes) = Len(ps)
                   /\ \A j \in 1..Len(ps) : SameParty(out.partes[j], ps[j])
                   /\ Len(out.movimentos) = Len(ms)
                   /\ \A j \in 1..Len(ms) : SameMovement(out.movimentos[j], ms[j])

\* a party with two lawyers followed by a party with none kept both lawyers,
\* in their order, under the first party
C14_Witness ==
    /\ FormatReturned
    /\ Len(RawHits) = 1
    /\ ListAt(Src(1), "partes") =
          << [tipo |-> "AUTOR", pessoa |-> Pessoa1,
              advogados |-> <<Lawyer2, Lawyer1>>],
             Party2 >>
    /\ formatted.processes[1].partes[1].advogados =
          << [nome |-> "adv2", documento |-> "N/A"],
             [nome |-> "adv1", documento |-> "oab1"] >>
    /\ formatted.processes[1].partes[2].nome = "p2"
    /\ formatted.processes[1].partes[2].advogados = <<>>

-----------------------------------------------------------------------------
(* Round trip through process_query *)

\* C15: for every identifier X, the exact-match query for X followed by the
\* normalisation of a response whose single hit has _source.numeroProcesso = X
\* yields exactly one record, whose numero_processo is X.
C15_RoundTrip ==
    (/\ pc = "returned"
     /\ process_number # None
     /\ requests[1].json = build_process_number_query(process_number)
     /\ HasPath(transport.body, <<"hits", "hits">>)
     /\ Len(transport.body.hits.hits) = 1
     /\ HasPath(transport.body.hits.hits[1], <<"_source", "numeroProcesso">>)
     /\ transport.body.hits.hits[1]._source.numeroProcesso = Str(process_number))
    => /\ Len(result.processes) = 1
       /\ result.processes[1].numero_processo = Str(process_number)

\* the identifier of a longer text came back as the number of the one record
C15_Witness ==
    /\ pc = "returned"
    /\ process_number = Cand(Seq1, Chk1, Year1, <<"1">>, <<"0","1">>, Orig1)
    /\ Len(query_text) > Len(process_number)
    /\ Len(result.processes) = 1
    /\ result.processes[1].numero_processo = "0000001-70.2020.1.01.0000"

-----------------------------------------------------------------------------
(* Missing data in format_response *)

\* the key chain runs into a JSON null before its last key
NullOn(d, keys) ==
    \E n \in 0..(Len(keys) - 1) :
        /\ HasPath(d, SubSeq(keys, 1, n))
        /\ At(d, SubSeq(keys, 1, n)) = Null

\* the chains format_response follows below _source, a party, a lawyer and
\* a movement, each to a scalar leaf
SourceLeaves == {<<"numeroProcesso">>, <<"classe", "nome">>, <<"assunto", "nome">>,
                 <<"dadosBasicos", "dataAjuizamento">>,
                 <<"dadosBasicos", "valorCausa">>, <<"orgaoJulgador", "nome">>}
PartyLeaves == {<<"tipo">>, <<"pessoa", "nome">>,
                <<"pessoa", "numeroDocumentoPrincipal">>}
LawyerLeaves == {<<"pessoa", "nome">>, <<"pessoa", "numeroDocumentoPrincipal">>}
MovementLeaves == {<<"data">>, <<"nome">>, <<"complemento">>}

\* the name of the output field a chain is copied to
OutField(keys) ==
    CASE keys = <<"numeroProcesso">> -> "numero_processo"
      [] keys = <<"classe", "nome">> -> "classe"
      [] keys = <<"assunto", "nome">> -> "assunto"
      [] keys = <<"dadosBasicos", "dataAjuizamento">> -> "data_ajuizamento"
      [] keys = <<"dadosBasicos", "valorCausa">> -> "valor_causa"
      [] keys = <<"orgaoJulgador", "nome">> -> "orgao_julgador"
      [] keys = <<"pessoa", "nome">> -> "nome"
      [] keys = <<"pessoa", "numeroDocumentoPrincipal">> -> "documento"
      [] OTHER -> keys[1]

PartyMissingOnly(parte) ==
    /\ \A keys \in PartyLeaves : ~ NullOn(parte, keys)
    /\ \A k \in 1..Len(ListAt(parte, "advogados")) :
          \A keys \in LawyerLeaves : ~ NullOn(parte.advogados[k], keys)

HitMissingOnly(hit) ==
    /\ ~ NullOn(hit, <<"_source", "numeroProcesso">>)
    /\ LET source == IF "_source" \in DOMAIN hit THEN hit._source ELSE EmptyDict
       IN  /\ \A keys \in SourceLeaves : ~ NullOn(source, keys)
           /\ \A j \in 1..Len(ListAt(source, "partes")) :
                 PartyMissingOnly(source.partes[j])
           /\ \A j \in 1..Len(ListAt(source, "movimentos")) :
                 \A keys \in MovementLeaves : ~ NullOn(source.movimentos[j], keys)

\* optional data of the response is absent or present, never null
MissingOnly(response) ==
    /\ ~ NullOn(response, <<"hits", "total", "value">>)
    /\ ~ NullOn(response, <<"hits", "hits">>)
    /\ \A i \in 1..Len(RawHits) : HitMissingOnly(RawHits[i])

\* every leaf of out whose chain is missing in src is "N/A"
Defaulted(out, src, leaves) ==
    \A keys \in leaves : ~ HasPath(src, keys) => out[OutField(keys)] = "N/A"

\* C16: format_response does not raise on a response whose optional data is
\* missing at any level of a key chain, and every scalar leaf of a record,
\* party, lawyer or movement whose source key chain is missing is "N/A".
C16_MissingIsNA ==
    (FormatDone /\ MissingOnly(raw_response)) =>
        /\ FormatReturned
        /\ Len(formatted.processes) = Len(RawHits)
        /\ \A i \in 1..Len(RawHits) :
              LET out == formatted.processes[i]
                  ps  == ListAt(Src(i), "partes")
                  ms  == ListAt(Src(i), "movimentos")
              IN  /\ Defaulted(out, Src(i), SourceLeaves)
                  /\ Len(out.partes) = Len(ps)
                  /\ \A j \in 1..Len(ps) :
                        /\ Defaulted(out.partes[j], ps[j], PartyLeaves)
                        /\ Len(out.partes[j].advogados) =
                              Len(ListAt(ps[j], "advogados"))
                        /\ \A k \in 1..Len(ListAt(ps[j], "advogados")) :
                              Defaulted(out.partes[j].advogados[k],
                                        ps[j].advogados[k], LawyerLeaves)
                  /\ Len(out.movimentos) = Len(ms)
                  /\ \A j \in 1..Len(ms) :
                        Defaulted(out.movimentos[j], ms[j], MovementLeaves)

\* a hit that has only a number and two movements, the second one empty, got
\* "N/A" at every other leaf
C16_Witness ==
    /\ FormatReturned
    /\ raw_response =
          [hits |-> [total |-> [value |-> 1],
                     hits  |-> << [_source |->
                        [numeroProcesso |-> "n1",
                         movimentos |-> << [complemento |-> ""], EmptyDict >>]] >>]]
    /\ formatted.processes[1].classe = "N/A"
    /\ formatted.processes[1].valor_causa = "N/A"
    /\ formatted.processes[1].movimentos[1].complemento = ""
    /\ formatted.processes[1].movimentos[2] =
          [data |-> "N/A", nome |-> "N/A", complemento |-> "N/A"]

-----------------------------------------------------------------------------
(* Metadata of a result *)

\* C17: every result process_query returns carries metadata whose query is
\* the input text unchanged, whose process_number is the identifier extracted
\* from that text (None when there is none), and whose court is the court
\* code the request was sent to.
C17_MetadataTellsTheCall ==
    pc = "returned" =>
        /\ "metadata" \in DOMAIN result
        /\ result.metadata.query = query_text
        /\ result.metadata.process_number =
              FirstOf(query_text, DelimitedStarts(query_text))
        /\ Len(requests) = 1
        /\ result.metadata.court \in DOMAIN COURT_ENDPOINTS
        /\ requests[1].url = UrlOf(result.metadata.court)

\* a text around an identifier was answered by a court other than the default
C17_Witness ==
    /\ pc = "returned"
    /\ process_number # None
    /\ Len(query_text) > Len(process_number)
    /\ result.metadata.process_number = process_number
    /\ result.metadata.court # "stf"
    /\ result.metadata.query = query_text

-----------------------------------------------------------------------------
(* The query builders called on their own *)

MaxCalls == 2

BuildTexts == FreeTexts \cup CoreCands \cup Malformed
\* None is the default of the parameter field
Fields == {NoneStr, "", "classe.nome", "numeroProcesso"}

\* agent.build_process_number_query(arg)
BuildProcessNumberQuery ==
    /\ Len(built) < MaxCalls
    /\ built' = Append(built, [fn    |-> "build_process_number_query",
                               query |-> build_process_number_query(arg)])
    /\ UNCHANGED <<search_field, pure_vars, pq_vars, fmt_vars, conc_vars, table_vars, chat_vars>>

\* a call that leaves the field out
BuildTextSearchQuery_default_field ==
    /\ Len(built) < MaxCalls
    /\ built' = Append(built, [fn    |-> "build_text_search_query",
                               query |-> build_text_search_query(arg, NoneStr)])
    /\ UNCHANGED <<search_field, pure_vars, pq_vars, fmt_vars, conc_vars, table_vars, chat_vars>>

\* agent.build_text_search_query(arg, search_field)
BuildTextSearchQuery ==
    /\ Len(built) < MaxCalls
    /\ built' = Append(built, [fn    |-> "build_text_search_query",
                               query |-> build_text_search_query(arg, search_field)])
    /\ UNCHANGED <<search_field, pure_vars, pq_vars, fmt_vars, conc_vars, table_vars, chat_vars>>

InitBuild ==
    /\ arg \in BuildTexts
    /\ search_field \in Fields
    /\ built = <<>>
    /\ extracted = Unset
    /\ court = UnsetStr
    /\ DATAJUD_API_KEY = NoneStr
    /\ pc = "idle"
    /\ query_text = None
    /\ process_number = None
    /\ court_code = NoneStr
    /\ query = NoQuery
    /\ requests = <<>>
    /\ transport = NoTransport
    /\ result = NoResult
    /\ error = NoError
    /\ FmtIdle
    /\ ConcIdle
    /\ TablesLoaded
    /\ ChatIdle

NextBuild == BuildProcessNumberQuery \/ BuildTextSearchQuery

SpecBuild == InitBuild /\ [][NextBuild]_vars

-----------------------------------------------------------------------------
(* Concurrent process_query calls on the one agent of the web application *)

ConcTexts == {Cand(Seq1, Chk1, Year1, <<"1">>, <<"0","1">>, Orig1),
              Cand(<<"1","2","3","4","5","6","7">>, <<"8","9">>, <<"1","9","9","9">>,
                   <<"2">>, <<"2","6">>, <<"0","1","2","3">>),
              Cand(Seq1, Chk1, Year1, <<"1">>, <<"9","9">>, Orig1),
              <<"h", "c">>}

ConcStatuses == {200, 500}
ConcApiKeys == {NoneStr, "k3y"}
ConcExceptions == {[type |-> "Timeout"]}

\* what the server may answer to the query q
ConcBodies(q) ==
    FoundBodies(q) \cup {[hits |-> [total |-> [value |-> 0], hits |-> <<>>]]}

\* call i enters process_query: extraction, routing and query building work
\* on the locals of the call
ConcProcessQuery(i, text) ==
    /\ calls[i].pc = "idle"
    /\ LET r == route(text)
       IN  calls' = [calls EXCEPT ![i] =
              [@ EXCEPT !.query_text = text,
                        !.process_number = r.process_number,
                        !.court_code = r.court_code,
                        !.query = r.query,
                        !.pc = IF r.error # NoError THEN "raised" ELSE "routed",
                        !.error = r.error]]
    /\ UNCHANGED <<pure_vars, pq_vars, fmt_vars, build_vars, table_vars, chat_vars>>

\* call i reaches session.post of the shared session
ConcQueryApi(i) ==
    /\ calls[i].pc = "routed"
    /\ IF calls[i].court_code \notin DOMAIN COURT_ENDPOINTS
       THEN /\ calls' = [calls EXCEPT ![i] =
                   [@ EXCEPT !.pc = "raised",
                             !.error = ValueError("Invalid court code",
                                                  calls[i].court_code)]]
            /\ UNCHANGED requests
       ELSE /\ calls' = [calls EXCEPT ![i] = [@ EXCEPT !.pc = "posting"]]
            /\ requests' = Append(requests,
                              post_request(calls[i].court_code, calls[i].query,
                                           DATAJUD_API_KEY) @@ [call |-> i])
    /\ UNCHANGED <<pure_vars, DATAJUD_API_KEY, pc, query_text, process_number,
                   court_code, query, transport, result, error,
                   fmt_vars, build_vars, table_vars, chat_vars>>

\* session.post of call i raises
ConcPostRaises(i, exc) ==
    /\ calls[i].pc = "posting"
    /\ calls' = [calls EXCEPT ![i] =
           [@ EXCEPT !.transport = [kind |-> "raise", exc |-> exc],
                     !.pc = "raised",
                     !.error = exc]]
    /\ UNCHANGED <<pure_vars, pq_vars, fmt_vars, build_vars, table_vars, chat_vars>>

\* an agent that keeps the court and the number of the request it sent last
\* and labels the result with them
ConcPostReturns_last_request(i, status, body, now) ==
    /\ calls[i].pc = "posting"
    /\ LET r == query_api_response(status, body)
           f == IF r[1] = "raise" THEN r ELSE format_response_outcome(r[2])
           last == calls[requests[Len(requests)].call]
       IN  calls' = [calls EXCEPT ![i] =
              [@ EXCEPT !.transport = [kind |-> "response", status |-> status,
                                       body |-> body],
                        !.pc = IF f[1] = "raise" THEN "raised" ELSE "returned",
                        !.error = IF f[1] = "raise" THEN f[2] ELSE @,
                        !.result = IF f[1] = "raise" THEN @
                                   ELSE add_metadata(f[2], calls[i].query_text,
                                                     last.process_number,
                                                     last.court_code, now)]]
    /\ UNCHANGED <<pure_vars, pq_vars, fmt_vars, build_vars, table_vars, chat_vars>>

\* session.post of call i returns a response: the rest of query_api and of
\* process_query, on the locals of the call
ConcPostReturns(i, status, body, now) ==
    /\ calls[i].pc = "posting"
    /\ LET r == query_api_response(status, body)
           f == IF r[1] = "raise" THEN r ELSE format_response_outcome(r[2])
       IN  calls' = [calls EXCEPT ![i] =
              [@ EXCEPT !.transport = [kind |-> "response", status |-> status,
                                       body |-> body],
                        !.pc = IF f[1] = "raise" THEN "raised" ELSE "returned",
                        !.error = IF f[1] = "raise" THEN f[2] ELSE @,
                        !.result = IF f[1] = "raise" THEN @
                                   ELSE add_metadata(f[2], calls[i].query_text,
                                                     calls[i].process_number,
                                                     calls[i].court_code, now)]]
    /\ UNCHANGED <<pure_vars, pq_vars, fmt_vars, build_vars, table_vars, chat_vars>>

InitConc ==
    /\ arg = None
    /\ extracted = Unset
    /\ court = UnsetStr
    /\ DATAJUD_API_KEY \in ConcApiKeys
    /\ pc = "idle"
    /\ query_text = None
    /\ process_number = None
    /\ court_code = NoneStr
    /\ query = NoQuery
    /\ requests = <<>>
    /\ transport = NoTransport
    /\ result = NoResult
    /\ error = NoError
    /\ ExtIdle

NextConc ==
    \E i \in 1..NumCalls :
        \/ \E text \in ConcTexts : ConcProcessQuery(i, text)
        \/ ConcQueryApi(i)
        \/ \E exc \in ConcExceptions : ConcPostRaises(i, exc)
        \/ \E status \in ConcStatuses, body \in ConcBodies(calls[i].query),
              now \in Timestamps :
              ConcPostReturns(i, status, body, now)

SpecConc == InitConc /\ [][NextConc]_vars

\* what process_query(text) does when it runs alone and session.post behaves
\* as tr: the request it sends, if any, and the value or exception it ends with
Alone(text, api_key, tr, now) ==
    LET r == route(text)
    IN  IF r.error # NoError
        THEN [sent |-> <<>>, pc |-> "raised", error |-> r.error,
              result |-> NoResult]
        ELSE IF r.court_code \notin DOMAIN COURT_ENDPOINTS
        THEN [sent |-> <<>>, pc |-> "raised",
              error |-> ValueError("Invalid court code", r.court_code),
              result |-> NoResult]
        ELSE LET sent == << post_request(r.court_code, r.query, api_key) >>
             IN  IF tr.kind = "raise"
                 THEN [sent |-> sent, pc |-> "raised", error |-> tr.exc,
                       result |-> NoResult]
                 ELSE LET q == query_api_response(tr.status, tr.body)
                          f == IF q[1] = "raise" THEN q
                               ELSE format_response_outcome(q[2])
                      IN  IF f[1] = "raise"
                          THEN [sent |-> sent, pc |-> "raised", error |-> f[2],
                                result |-> NoResult]
                          ELSE [sent |-> sent, pc |-> "returned",
                                error |-> NoError,
                                result |-> add_metadata(f[2], text,
                                              r.process_number, r.court_code, now)]

\* the requests of call i in the log of the shared session, without the tag
SentBy(i) ==
    LET mine == SelectSeq(requests, LAMBDA req : req.call = i)
    IN  [k \in 1..Len(mine) |-> Without(mine[k], "call")]

Finished(i) == calls[i].pc \in {"returned", "raised"}

-----------------------------------------------------------------------------
(* One record per hit *)

\* C20: format_response produces exactly one record per element of
\* hits.hits, in the order of the hits; no hit is dropped, merged, duplicated
\* or reordered, and two identical hits give two records.
C20_OneRecordPerHit ==
    FormatReturned =>
        /\ Len(formatted.processes) = Len(RawHits)
        /\ \A i \in 1..Len(RawHits) :
              /\ formatted.processes[i].numero_processo =
                    Leaf(Src(i), <<"numeroProcesso">>)
              /\ formatted.processes[i].classe = Leaf(Src(i), <<"classe", "nome">>)
              /\ formatted.processes[i].orgao_julgador =
                    Leaf(Src(i), <<"orgaoJulgador", "nome">>)

\* the same hit listed twice came out as two equal records
C20_Witness ==
    /\ FormatReturned
    /\ Len(RawHits) = 2
    /\ RawHits[1] = RawHits[2]
    /\ Len(formatted.processes) = 2
    /\ formatted.processes[1] = formatted.processes[2]
    /\ formatted.processes[1].numero_processo # "N/A"

-----------------------------------------------------------------------------
(* total_hits *)

-----------------------------------------------------------------------------
(* The segments of an extracted identifier *)

AllDigits(s) == \A i \in 1..Len(s) : s[i] \in Digits

\* C27: every identifier extract_process_number returns splits on '.' into
\* exactly 5 segments, the third a single digit and the fourth two digits, so
\* inside process_query the segment-count check of
\* identify_court_from_process_number never fails and a court is missing only
\* when the (justice type, court id) pair is not listed.
C27_ExtractedHasFiveSegments ==
    (Started /\ process_number # None) =>
        /\ Cardinality(Dots(process_number)) = 4
        /\ Len(Segment(process_number, 3)) = 1
        /\ AllDigits(Segment(process_number, 3))
        /\ Len(Segment(process_number, 4)) = 2
        /\ AllDigits(Segment(process_number, 4))
        /\ court_code = NoneStr <=>
              ~ Listed(Str(Segment(process_number, 3)),
                       Str(Segment(process_number, 4)))

\* an identifier followed by a dot in the text was extracted without the dot
\* and failed only because its pair is not listed
C27_Witness ==
    /\ pc = "raised"
    /\ process_number = Cand(Seq1, Chk1, Year1, <<"1">>, <<"9","9">>, Orig1)
    /\ query_text = process_number \o <<".">>
    /\ Cardinality(Dots(query_text)) = 5
    /\ court_code = NoneStr
    /\ error.type = "ValueError"

-----------------------------------------------------------------------------
(* The classification table *)

\* the (justice type, court id) pairs under which the table lists a code
PairsOf(code) ==
    LET ids == UNION {DOMAIN court_code_mapping[k] : k \in DOMAIN court_code_mapping}
    IN  {p \in (DOMAIN court_code_mapping) \X ids :
            /\ p[2] \in DOMAIN court_code_mapping[p[1]]
            /\ court_code_mapping[p[1]][p[2]] = code}

ListedPairs ==
    UNION {{<<j, tr>> : tr \in DOMAIN court_code_mapping[j]} :
              j \in DOMAIN court_code_mapping}

ListedCodes ==
    UNION {{court_code_mapping[j][tr] : tr \in DOMAIN court_code_mapping[j]} :
              j \in DOMAIN court_code_mapping}

\* C23: the classification table has 6 entries under justice type 1, 27
\* under 2, 24 under 3, 27 under 4, none under 5 and 3 under 6 (stf, stj,
\* tst), and no court code is listed under two (justice type, court id) pairs.
C23_TableShape ==
    /\ DOMAIN court_code_mapping = KnownJusticeTypes
    /\ Cardinality(DOMAIN court_code_mapping["1"]) = 6
    /\ Cardinality(DOMAIN court_code_mapping["2"]) = 27
    /\ Cardinality(DOMAIN court_code_mapping["3"]) = 24
    /\ Cardinality(DOMAIN court_code_mapping["4"]) = 27
    /\ Cardinality(DOMAIN court_code_mapping["5"]) = 0
    /\ Cardinality(DOMAIN court_code_mapping["6"]) = 3
    /\ {court_code_mapping["6"][tr] : tr \in DOMAIN court_code_mapping["6"]}
          = {"stf", "stj", "tst"}
    /\ Cardinality(ListedCodes) = Cardinality(ListedPairs)

\* a number of justice type 6 was looked up in the table and found its one
\* court
C23_Witness ==
    /\ IdentifyDone
    /\ arg # None
    /\ IsGrammar(arg)
    /\ arg[17] = "6"
    /\ court = "stj"
    /\ PairsOf(court) = {<<"6", "01">>}

-----------------------------------------------------------------------------
(* Every operation of one agent, in any order *)

AgentTexts == {Cand(Seq1, Chk1, Year1, <<"1">>, <<"0","1">>, Orig1),
               InvalidJustice, <<"h", "c">>}
AgentResponses == {[hits |-> Null],
                   [hits |-> [total |-> [value |-> 1],
                              hits  |-> << [_source |-> Source1] >>]]}
AgentFields == {NoneStr, "classe.nome"}
AgentCodes == {"stj", "invalid_court"}

\* the caller is done with what the calls so far returned or raised and goes
\* on with other arguments (the interactive loop asks for the next query)
NextQuery ==
    /\ pc \in {"returned", "raised"}
    /\ arg' \in AgentTexts
    /\ raw_response' \in AgentResponses
    /\ search_field' \in AgentFields
    /\ extracted' = Unset
    /\ court' = UnsetStr
    /\ formatted' = Unformatted
    /\ built' = <<>>
    /\ pc' = "idle"
    /\ query_text' = None
    /\ process_number' = None
    /\ court_code' = NoneStr
    /\ query' = NoQuery
    /\ requests' = <<>>
    /\ transport' = NoTransport
    /\ result' = NoResult
    /\ error' = NoError
    /\ UNCHANGED <<DATAJUD_API_KEY, conc_vars, table_vars, chat_vars>>

InitAgent ==
    /\ arg \in AgentTexts
    /\ raw_response \in AgentResponses
    /\ search_field \in AgentFields
    /\ DATAJUD_API_KEY \in ConcApiKeys
    /\ extracted = Unset
    /\ court = UnsetStr
    /\ formatted = Unformatted
    /\ built = <<>>
    /\ pc = "idle"
    /\ query_text = None
    /\ process_number = None
    /\ court_code = NoneStr
    /\ query = NoQuery
    /\ requests = <<>>
    /\ transport = NoTransport
    /\ result = NoResult
    /\ error = NoError
    /\ ConcIdle
    /\ TablesLoaded
    /\ ChatIdle

NextAgent ==
    \/ ExtractProcessNumber
    \/ IdentifyCourt
    \/ BuildProcessNumberQuery
    \/ BuildTextSearchQuery
    \/ FormatResponse
    \/ \E text \in ConcTexts : ProcessQuery(text)
    \/ \E code \in AgentCodes : QueryApi(code, build_text_search_query(arg, NoneStr))
    \/ \E exc \in ConcExceptions : PostRaises(exc)
    \/ \E status \in ConcStatuses, body \in ConcBodies(query), now \in Timestamps :
          query_text # None /\ PostReturns(status, body, now)
    \/ \E status \in ConcStatuses, body \in ConcBodies(query) :
          query_text = None /\ ApiPostReturns(status, body)
    \/ NextQuery

SpecAgent == InitAgent /\ [][NextAgent]_vars

\* C24: no operation of the agent (extract_process_number,
\* identify_court_from_process_number, the query builders, query_api,
\* format_response, process_query), in any sequence and whether it succeeds or
\* fails, changes the classification table or the endpoint table: both have
\* their initial contents in every reachable state.
C24_TablesNeverChange ==
    /\ court_code_mapping = COURT_CODE_MAPPING
    /\ court_endpoints = COURT_ENDPOINTS

\* a lookup of an unlisted justice type, a failed process_query, a
\* format_response that raised and two builder calls have all happened
C24_Witness ==
    /\ arg = InvalidJustice
    /\ court = NoneStr
    /\ extracted = InvalidJustice
    /\ pc = "raised"
    /\ formatted = AttributeError
    /\ Len(built) = 2
    /\ "9" \notin DOMAIN court_code_mapping
    /\ DOMAIN court_endpoints = DOMAIN COURT_ENDPOINTS

-----------------------------------------------------------------------------
(* The API key header *)

\* C25: the request query_api sends carries an X-API-Key header exactly when
\* the environment has an API key with a non-empty value, and the header then
\* has that value; with no key, or an empty one, the request is sent all the
\* same, without the header.
C25_ApiKeyHeader ==
    (Started /\ court_code \in DOMAIN COURT_ENDPOINTS) =>
        /\ Len(requests) = 1
        /\ "X-API-Key" \in DOMAIN requests[1].headers
              <=> DATAJUD_API_KEY \notin {NoneStr, ""}
        /\ "X-API-Key" \in DOMAIN requests[1].headers
              => requests[1].headers["X-API-Key"] = DATAJUD_API_KEY
        /\ DOMAIN requests[1].headers \subseteq {"Content-Type", "Accept", "X-API-Key"}

\* with the key k3y in the environment a request went out with that header
\* and was answered
C25_Witness ==
    /\ pc = "returned"
    /\ DATAJUD_API_KEY = "k3y"
    /\ Len(requests) = 1
    /\ DOMAIN requests[1].headers = {"Content-Type", "Accept", "X-API-Key"}
    /\ requests[1].headers["X-API-Key"] = "k3y"

-----------------------------------------------------------------------------
(* The two tables agree *)

\* C26: every court code of the classification table is a key of the
\* endpoint table, so is the default code stf, and every key of the endpoint
\* table is listed in the classification table; so the court code
\* process_query hands to query_api is always a known one and process_query
\* never fails with the invalid-court-code error.
C26_TablesAgree ==
    /\ ListedCodes \subseteq DOMAIN court_endpoints
    /\ "stf" \in DOMAIN court_endpoints
    /\ DOMAIN court_endpoints \subseteq ListedCodes
    /\ (Started /\ court_code # NoneStr) => court_code \in DOMAIN court_endpoints
    /\ (pc = "raised" /\ error.type = "ValueError")
          => error.what = "Could not identify court"

\* a number of the first federal court was sent to the endpoint the table has
\* for the code trf1 and answered
C26_Witness ==
    /\ pc = "returned"
    /\ process_number # None
    /\ court_code = "trf1"
    /\ PairsOf(court_code) = {<<"1", "01">>}
    /\ Len(requests) = 1
    /\ requests[1].url = API_BASE_URL \o "/" \o court_endpoints["trf1"] \o "/_search"

-----------------------------------------------------------------------------
(* The /process/<process_number> route of the web application *)

\* strings the URL rule hands to process_detail: any non-empty path segment
DetailNumbers ==
    {Cand(Seq1, Chk1, Year1, j, tr, Orig1) : j \in JusticeSegs, tr \in CourtSegs}
    \cup Malformed
    \cup {<<"x">> \o Cand(Seq1, Chk1, Year1, <<"2">>, <<"2","6">>, Orig1),
          Cand(Seq1, Chk1, Year1, <<"3">>, <<"0","5">>, Orig1) \o <<"_">>}

DetailBodies(q) == ConcBodies(q) \cup {[hits |-> [total |-> Null]], NotJson}

CourtNotIdentified == [type |-> "court_not_identified"]

\* a route that looks up only what extract_process_number accepts as a whole
ProcessDetail_validated(number) ==
    /\ pc = "idle"
    /\ process_number' = number
    /\ LET code == IF extract_process_number(number) = number
                   THEN identify_court_from_process_number(number)
                   ELSE NoneStr
       IN  /\ court_code' = code
           /\ IF code = NoneStr \/ code = ""
              THEN /\ pc' = "error_page"
                   /\ error' = CourtNotIdentified
                   /\ UNCHANGED <<query, requests>>
              ELSE /\ query' = build_process_number_query(number)
                   /\ IF code \notin DOMAIN COURT_ENDPOINTS
                      THEN /\ pc' = "error_page"
                           /\ error' = ValueError("Invalid court code", code)
                           /\ UNCHANGED requests
                      ELSE /\ pc' = "posting"
                           /\ requests' = Append(requests,
                                  post_request(code,
                                               build_process_number_query(number),
                                               DATAJUD_API_KEY))
                           /\ UNCHANGED error
    /\ UNCHANGED <<arg, extracted, court, DATAJUD_API_KEY, query_text,
                   transport, result>>
    /\ UNCHANGED ext_vars

\* process_detail(number) from its start to the POST of query_api, or to the
\* error page when no court is identified
ProcessDetail(number) ==
    /\ pc = "idle"
    /\ process_number' = number
    /\ LET code == identify_court_from_process_number(number)
       IN  /\ court_code' = code
           /\ IF code = NoneStr \/ code = ""
              THEN /\ pc' = "error_page"
                   /\ error' = CourtNotIdentified
                   /\ UNCHANGED <<query, requests>>
              ELSE /\ query' = build_process_number_query(number)
                   /\ IF code \notin DOMAIN COURT_ENDPOINTS
                      THEN /\ pc' = "error_page"
                           /\ error' = ValueError("Invalid court code", code)
                           /\ UNCHANGED requests
                      ELSE /\ pc' = "posting"
                           /\ requests' = Append(requests,
                                  post_request(code,
                                               build_process_number_query(number),
                                               DATAJUD_API_KEY))
                           /\ UNCHANGED error
    /\ UNCHANGED <<arg, extracted, court, DATAJUD_API_KEY, query_text,
                   transport, result>>
    /\ UNCHANGED ext_vars

\* session.post raises: `except Exception` renders the error page
DetailPostRaises(exc) ==
    /\ pc = "posting"
    /\ transport' = [kind |-> "raise", exc |-> exc]
    /\ pc' = "error_page"
    /\ error' = exc
    /\ UNCHANGED <<arg, extracted, court, DATAJUD_API_KEY, query_text,
                   process_number, court_code, query, requests, result>>
    /\ UNCHANGED ext_vars

\* session.post returns: the rest of query_api, format_response, the metadata
\* and the page that is rendered
DetailPostReturns(status, body, now) ==
    /\ pc = "posting"
    /\ transport' = [kind |-> "response", status |-> status, body |-> body]
    /\ LET r == query_api_response(status, body)
           f == IF r[1] = "raise" THEN r ELSE format_response_outcome(r[2])
       IN  IF f[1] = "raise"
           THEN /\ pc' = "error_page"
                /\ error' = f[2]
                /\ UNCHANGED result
           ELSE /\ pc' = "detail_page"
                /\ result' = f[2] @@ [metadata |->
                                        [process_number |-> process_number,
                                         court          |-> court_code,
                                         timestamp      |-> now]]
                /\ UNCHANGED error
    /\ UNCHANGED <<arg, extracted, court, DATAJUD_API_KEY, query_text,
                   process_number, court_code, query, requests>>
    /\ UNCHANGED ext_vars

NextWeb ==
    \/ \E number \in DetailNumbers : ProcessDetail(number)
    \/ \E exc \in PostExceptions : DetailPostRaises(exc)
    \/ \E status \in Statuses, body \in DetailBodies(query), now \in Timestamps :
          DetailPostReturns(status, body, now)

SpecWeb == Init /\ [][NextWeb]_vars

\* C28: the result of identify_court_from_process_number depends only on the
\* number of dot-separated segments and on the third and fourth segment: a
\* string of exactly 5 segments whose third and fourth form a listed pair
\* yields that court even when it is not an identifier, so the
\* /process/<process_number> route sends an exact-match request for strings
\* that extract_process_number rejects.
C28_DetailRouteSkipsGrammar ==
    Started =>
        LET five == Cardinality(Dots(process_number)) = 4
            pair == five /\ Listed(Str(Segment(process_number, 3)),
                                   Str(Segment(process_number, 4)))
        IN  /\ court_code =
                  IF pair
                  THEN COURT_CODE_MAPPING[Str(Segment(process_number, 3))]
                                         [Str(Segment(process_number, 4))]
                  ELSE NoneStr
            /\ pair => /\ Len(requests) = 1
                       /\ requests[1].url = UrlOf(court_code)
                       /\ requests[1].json =
                             [query |-> [bool |-> [must |->
                                 << [match |-> [numeroProcesso |-> process_number]] >>]],
                              size  |-> 100]
            /\ ~ pair => requests = <<>> /\ pc = "error_page"

\* a string of letters with 1 and 01 as third and fourth segment, in which
\* extract_process_number finds nothing, was looked up in the first federal
\* court and its page rendered
C28_Witness ==
    /\ pc = "detail_page"
    /\ process_number = LettersOnly
    /\ GrammarStarts(process_number) = {}
    /\ court_code = "trf1"
    /\ Len(requests) = 1
    /\ requests[1].json.query.bool.must[1].match.numeroProcesso = LettersOnly
    /\ result.metadata.process_number = LettersOnly

-----------------------------------------------------------------------------
(* Present leaves are copied *)

\* every leaf of out whose chain is present in src has the source value
Copied(out, src, leaves) ==
    \A keys \in leaves : HasPath(src, keys) => out[OutField(keys)] = At(src, keys)

\* C29: format_response puts "N/A" only where a key is absent: every scalar
\* leaf whose key is present in the source is copied as it is, the empty
\* string included, so an output leaf is "N/A" only when the source key is
\* absent or the source value is "N/A" itself.
C29_PresentLeavesCopied ==
    FormatReturned =>
        \A i \in 1..Len(RawHits) :
            /\ i <= Len(formatted.processes)
            /\ LET out == formatted.processes[i]
                   ps  == ListAt(Src(i), "partes")
                   ms  == ListAt(Src(i), "movimentos")
               IN  /\ Copied(out, Src(i), SourceLeaves)
                   /\ Len(out.partes) = Len(ps)
                   /\ \A j \in 1..Len(ps) :
                         /\ Copied(out.partes[j], ps[j], PartyLeaves)
                         /\ Len(out.partes[j].advogados) =
                               Len(ListAt(ps[j], "advogados"))
                         /\ \A k \in 1..Len(ListAt(ps[j], "advogados")) :
                               Copied(out.partes[j].advogados[k],
                                      ps[j].advogados[k], LawyerLeaves)
                   /\ Len(out.movimentos) = Len(ms)
                   /\ \A j \in 1..Len(ms) :
                         Copied(out.movimentos[j], ms[j], MovementLeaves)

\* a party whose type and name are the empty string and whose document is
\* "N/A" in the source came out with exactly these values
C29_Witness ==
    /\ FormatReturned
    /\ Len(RawHits) = 1
    /\ Len(ListAt(Src(1), "partes")) = 1
    /\ Src(1).partes[1] =
          [tipo |-> "", pessoa |-> [nome |-> "", numeroDocumentoPrincipal |-> "N/A"]]
    /\ formatted.processes[1].partes[1] =
          [tipo |-> "", nome |-> "", documento |-> "N/A", advogados |-> <<>>]

-----------------------------------------------------------------------------
(* The /api/chat route of the chat application *)

\* the tool calls a completion can ask for: the Datajud tool with arguments
\* that decode, the Datajud tool with arguments that are not JSON, and a tool
\* of another name
ToolCalls == {[name |-> "query_datajud_api", arguments |-> "json"],
              [name |-> "query_datajud_api", arguments |-> "not json"],
              [name |-> "other_tool", arguments |-> "json"]}

\* request.json of the chat request: no JSON body, a message that is missing
\* or empty, and two messages
ChatBodies == {"no json", "", "oi", "processo 0000001-70.2020.1.01.0000"}

\* the handler returns jsonify(...) with a status
Respond(status, body) ==
    [chat EXCEPT !.pc = "responded", !.status = status, !.body = body]

\* chat() from the request to the first completion call
ChatRequest(data) ==
    /\ chat.pc = "idle"
    /\ chat' = IF data = "no json"
               THEN [Respond(500, "error") EXCEPT !.message = data]
               ELSE IF data = ""
               THEN [Respond(400, "error") EXCEPT !.message = data]
               ELSE [chat EXCEPT !.message = data, !.pc = "completion",
                                 !.llm_calls = @ + 1]
    /\ UNCHANGED <<pure_vars, pq_vars, fmt_vars, build_vars, conc_vars, table_vars>>

\* the first client.chat.completions.create raises
ChatCompletionRaises ==
    /\ chat.pc = "completion"
    /\ chat' = Respond(500, "error")
    /\ UNCHANGED <<pure_vars, pq_vars, fmt_vars, build_vars, conc_vars, table_vars>>

\* the first completion returns a message with these tool calls
ChatCompletionReturns(tool_calls) ==
    /\ chat.pc = "completion"
    /\ chat' = [chat EXCEPT !.completed = TRUE, !.tool_calls = tool_calls,
                            !.next = 1, !.pc = "tool_calls"]
    /\ UNCHANGED <<pure_vars, pq_vars, fmt_vars, build_vars, conc_vars, table_vars>>

\* one round of `for tool_call in ai_message.tool_calls`, up to the call of
\* process_query; after the loop the direct reply is returned
ChatToolCall ==
    /\ chat.pc = "tool_calls"
    /\ chat' =
          IF chat.next > Len(chat.tool_calls)
          THEN Respond(200, "direct")
          ELSE LET tool_call == chat.tool_calls[chat.next]
               IN  IF tool_call.name # "query_datajud_api"
                   THEN [chat EXCEPT !.next = @ + 1]
                   ELSE IF tool_call.arguments # "json"
                   THEN Respond(500, "error")      \* json.loads raises
                   ELSE [chat EXCEPT !.pc = "process_query",
                                     !.process_query_calls = @ + 1,
                                     !.executed = Append(@, chat.next)]
    /\ UNCHANGED <<pure_vars, pq_vars, fmt_vars, build_vars, conc_vars, table_vars>>

\* datajud_agent.process_query raises
ChatQueryRaises ==
    /\ chat.pc = "process_query"
    /\ chat' = Respond(500, "error")
    /\ UNCHANGED <<pure_vars, pq_vars, fmt_vars, build_vars, conc_vars, table_vars>>

\* datajud_agent.process_query returns: the second completion is called
ChatQueryReturns ==
    /\ chat.pc = "process_query"
    /\ chat' = [chat EXCEPT !.pc = "final_completion", !.llm_calls = @ + 1]
    /\ UNCHANGED <<pure_vars, pq_vars, fmt_vars, build_vars, conc_vars, table_vars>>

\* a handler that goes on with the next tool call after the final completion
ChatFinalCompletion_continue(ok) ==
    /\ chat.pc = "final_completion"
    /\ chat' = IF ok
               THEN IF chat.next < Len(chat.tool_calls)
                    THEN [chat EXCEPT !.pc = "tool_calls", !.next = @ + 1]
                    ELSE Respond(200, "final")
               ELSE Respond(500, "error")
    /\ UNCHANGED <<pure_vars, pq_vars, fmt_vars, build_vars, conc_vars, table_vars>>

\* the second completion returns (ok) or raises
ChatFinalCompletion(ok) ==
    /\ chat.pc = "final_completion"
    /\ chat' = IF ok THEN Respond(200, "final") ELSE Respond(500, "error")
    /\ UNCHANGED <<pure_vars, pq_vars, fmt_vars, build_vars, conc_vars, table_vars>>

NextChat ==
    \/ \E data \in ChatBodies : ChatRequest(data)
    \/ ChatCompletionRaises
    \/ \E tool_calls \in SeqsUpTo(ToolCalls, MaxToolCalls) :
          ChatCompletionReturns(tool_calls)
    \/ ChatToolCall
    \/ ChatQueryRaises
    \/ ChatQueryReturns
    \/ \E ok \in BOOLEAN : ChatFinalCompletion(ok)

SpecChat == Init /\ [][NextChat]_vars

\* the positions of the Datajud tool calls of the first completion
DatajudCalls ==
    {i \in 1..Len(chat.tool_calls) : chat.tool_calls[i].name = "query_datajud_api"}

ChatResponded == chat.pc = "responded"

====
